---- MODULE Spec2Model ----
(***************************************************************************)
(* A model of Portkey-AI/mcp-tool-filter: the LRU context cache, the       *)
(* vector operations, the context builder, the selector and the            *)
(* MCPToolFilter orchestrator (src/src/utils.ts and MCPToolFilter.ts).     *)
(*                                                                         *)
(* Conventions.                                                            *)
(*  - A JavaScript string is a sequence of character codes.                *)
(*  - A JavaScript Map is the sequence of its [key, value] entries in      *)
(*    insertion order, which is the order Map.keys() iterates in.          *)
(*  - A Float32Array is a sequence of fixed-point numbers counted in       *)
(*    tenths (9 stands for 0.9); a product of two components, and so a     *)
(*    dot product and a score, is counted in hundredths (90 is 0.90).      *)
(*    The provider's vectors are chosen with magnitudes that are whole     *)
(*    tenths, so that the square root and the division are exact.          *)
(*  - A value that may be undefined is a sequence of length at most one:   *)
(*    undefined is <<>> and a defined value x is Some(x) = <<x>>.          *)
(***************************************************************************)
EXTENDS Integers, Sequences, FiniteSets, TLC

VARIABLES
    \* a stand-alone LRUCache<K, V> (utils.ts), with the bookkeeping of its accesses
    lru,            \* LRUCache.cache: the Map's entries, oldest insertion first
    lruMax,         \* LRUCache.maxSize
    lruOut,         \* the last LRUCache operation and what it returned
    lastTouch,      \* key -> logical time of its last successful get or set (0: never, or cleared)
    now,            \* logical time: the number of successful accesses so far
    \* the MCPToolFilter instance
    config,         \* MCPToolFilter.config (set by the constructor, never assigned again)
    initialized,    \* MCPToolFilter.initialized
    toolEmbeddings, \* MCPToolFilter.toolEmbeddings: Map<toolKey, Float32Array>
    toolMetadata,   \* MCPToolFilter.toolMetadata: Map<toolKey, ToolWithMetadata>
    contextCache,   \* MCPToolFilter.contextCache: the LRUCache's Map
    calls,          \* the filter/initialize calls suspended at their await
    resp,           \* the last step of the instance and what it gave its caller
    \* a stand-alone call of partialSort (utils.ts)
    sortIn,         \* the pool and k it is called with
    sortOut,        \* what it returned, next to what the comparison sort gives
    \* a stand-alone call of normalizeVector, dotProduct or truncateToTokens (utils.ts)
    utilIn,         \* the function and the arguments it is called with
    utilOut         \* what it returned or threw, and the buffers afterwards

lruVars == <<lru, lruMax, lruOut, lastTouch, now>>
filterVars == <<config, initialized, toolEmbeddings, toolMetadata, contextCache, calls, resp>>
sortVars == <<sortIn, sortOut>>
utilVars == <<utilIn, utilOut>>
vars == <<lru, lruMax, lruOut, lastTouch, now,
          config, initialized, toolEmbeddings, toolMetadata, contextCache, calls, resp,
          sortIn, sortOut, utilIn, utilOut>>

undefined == <<>>
Some(x) == <<x>>
Unwrap(o) == o[1]

(***************************************************************************)
(* Sequence helpers.                                                       *)
(***************************************************************************)
RECURSIVE SeqFilterOut(_, _)
\* the entries of Map m whose key is not k, in order
SeqFilterOut(m, k) ==
    IF m = <<>> THEN <<>>
    ELSE IF Head(m).key = k THEN SeqFilterOut(Tail(m), k)
         ELSE <<Head(m)>> \o SeqFilterOut(Tail(m), k)

Range(s) == {s[i] : i \in DOMAIN s}

(***************************************************************************)
(* JavaScript Map: has, get, delete, set, keys().next().value, size.       *)
(***************************************************************************)
MapKeys(m) == {m[i].key : i \in DOMAIN m}
MapHas(m, k) == k \in MapKeys(m)
MapGet(m, k) ==
    IF MapHas(m, k) THEN Some((CHOOSE e \in Range(m) : e.key = k).value) ELSE undefined
MapDelete(m, k) == SeqFilterOut(m, k)
\* Map.set keeps the position of a key that is present and appends a new one
MapSet(m, k, v) ==
    IF MapHas(m, k)
    THEN [i \in DOMAIN m |-> IF m[i].key = k THEN [key |-> k, value |-> v] ELSE m[i]]
    ELSE Append(m, [key |-> k, value |-> v])
MapFirstKey(m) == IF m = <<>> THEN undefined ELSE Some(m[1].key)
MapSize(m) == Len(m)

(***************************************************************************)
(* LRUCache (utils.ts 335-385), as functions of the Map it holds.          *)
(***************************************************************************)
\* a get that returns the oldest entry's value, whatever the key
LRUGetValueAnyKey(cache, key) ==
    IF cache = <<>> THEN undefined ELSE Some(cache[1].value)

\* get(key): the value returned
LRUGetValue(cache, key) ==
    IF ~MapHas(cache, key) THEN undefined ELSE MapGet(cache, key)

\* get(key): the Map afterwards (a hit is deleted and set again, so it moves to the end)
LRUGet(cache, key) ==
    IF ~MapHas(cache, key) THEN cache
    ELSE MapSet(MapDelete(cache, key), key, Unwrap(MapGet(cache, key)))

\* a set that adds its entry without looking for the key
LRUSetAppends(cache, maxSize, key, value) == Append(cache, [key |-> key, value |-> value])

\* set(key, value): the Map afterwards
LRUSet(cache, maxSize, key, value) ==
    LET c1 == IF MapHas(cache, key) THEN MapDelete(cache, key) ELSE cache
        firstKey == MapFirstKey(c1)
        c2 == IF MapSize(c1) >= maxSize /\ firstKey # undefined
              THEN MapDelete(c1, Unwrap(firstKey)) ELSE c1
    IN  MapSet(c2, key, value)

\* the capacity the filter constructs its context cache with
MAX_CACHE_SIZE == 100

LRUHas(cache, key) == MapHas(cache, key)
\* a clear that leaves the entries
LRUClearKeeps(cache) == cache
\* clear()
LRUClear(cache) == <<>>
LRUSize(cache) == MapSize(cache)

(***************************************************************************)
(* The stand-alone LRUCache: any sequence of get/set/has/clear on a cache  *)
(* constructed with any capacity in 0..MaxCapacity.                        *)
(***************************************************************************)
NumKeys == 3
MaxCapacity == 2
MaxAccesses == 4
LKeys == 1..NumKeys
LValues == {"x", "y"}

\* the key among S whose last access is the oldest
LeastRecentlyTouched(S) ==
    IF S = {} THEN undefined
    ELSE Some(CHOOSE k \in S : \A j \in S : lastTouch[k] <= lastTouch[j])

\* the keys accessed since the cache was last empty by construction or clear()
Touched == {k \in LKeys : lastTouch[k] > 0}

\* what lruOut holds after the constructor and after clear()
LNew ==
    [op |-> "new", key |-> undefined, result |-> undefined,
     evicted |-> undefined, oldest |-> undefined]
LCleared ==
    [op |-> "clear", key |-> undefined, result |-> undefined,
     evicted |-> undefined, oldest |-> undefined]
\* no key has been accessed
NeverTouched == [k \in LKeys |-> 0]

LInit ==
    /\ lruMax \in 0..MaxCapacity
    /\ lru = <<>>
    /\ lruOut = LNew
    /\ lastTouch = NeverTouched
    /\ now = 0

\* cache.get(key)
LGet(key) ==
    /\ MapHas(lru, key) => now < MaxAccesses
    /\ lru' = LRUGet(lru, key)
    /\ lruOut' = [op |-> "get", key |-> Some(key), result |-> LRUGetValue(lru, key),
                  evicted |-> undefined, oldest |-> undefined]
    /\ IF MapHas(lru, key)
       THEN /\ now' = now + 1
            /\ lastTouch' = [lastTouch EXCEPT ![key] = now + 1]
       ELSE UNCHANGED <<now, lastTouch>>
    /\ UNCHANGED <<lruMax, filterVars, sortVars, utilVars>>

\* cache.set(key, value)
LSet(key, value) ==
    /\ now < MaxAccesses
    /\ lru' = LRUSet(lru, lruMax, key, value)
    /\ lruOut' = [op |-> "set", key |-> Some(key), result |-> undefined,
                  evicted |-> IF MapKeys(lru) \subseteq MapKeys(lru') THEN undefined
                              ELSE Some(CHOOSE k \in MapKeys(lru) : k \notin MapKeys(lru')),
                  oldest |-> LeastRecentlyTouched(MapKeys(lru) \ {key})]
    /\ now' = now + 1
    /\ lastTouch' = [lastTouch EXCEPT ![key] = now + 1]
    /\ UNCHANGED <<lruMax, filterVars, sortVars, utilVars>>

\* a has that looks the key up with get
LHasTouches(key) ==
    /\ lru' = LRUGet(lru, key)
    /\ lruOut' = [op |-> "has", key |-> Some(key), result |-> Some(LRUHas(lru, key)),
                  evicted |-> undefined, oldest |-> undefined]
    /\ UNCHANGED <<lruMax, lastTouch, now, filterVars, sortVars, utilVars>>

\* cache.has(key)
LHas(key) ==
    /\ lruOut' = [op |-> "has", key |-> Some(key), result |-> Some(LRUHas(lru, key)),
                  evicted |-> undefined, oldest |-> undefined]
    /\ UNCHANGED <<lru, lruMax, lastTouch, now, filterVars, sortVars, utilVars>>

\* cache.clear()
LClear ==
    /\ lru' = LRUClear(lru)
    /\ lruOut' = LCleared
    /\ lastTouch' = NeverTouched
    /\ UNCHANGED <<lruMax, now, filterVars, sortVars, utilVars>>

LNext ==
    \/ \E key \in LKeys : LGet(key)
    \/ \E key \in LKeys, value \in LValues : LSet(key, value)
    \/ \E key \in LKeys : LHas(key)
    \/ LClear

(***************************************************************************)
(* String literals of the source, as character codes.                      *)
(***************************************************************************)
SPACE == <<32>>                                          \* ' '
STR_KeySeparator == <<58, 58>>                           \* '::'
STR_User == <<85, 115, 101, 114>>                        \* 'User'
STR_Assistant == <<65, 115, 115, 105, 115, 116, 97, 110, 116>>   \* 'Assistant'
STR_ColonSpace == <<58, 32>>                             \* ': '
STR_BlankLine == <<10, 10>>                              \* '\n\n'
STR_Ellipsis == <<46, 46, 46>>                           \* '...'
STR_Bar == <<32, 124, 32>>                               \* ' | '
STR_ServerContext == <<83, 101, 114, 118, 101, 114, 32, 99, 111, 110, 116, 101, 120, 116, 58, 32>>
STR_Keywords == <<75, 101, 121, 119, 111, 114, 100, 115, 58, 32>>
STR_CommaSpace == <<44, 32>>                             \* ', '
STR_Category == <<67, 97, 116, 101, 103, 111, 114, 121, 58, 32>>
STR_Parameters == <<80, 97, 114, 97, 109, 101, 116, 101, 114, 115, 58, 32>>
STR_Minus == <<45>>                                      \* '-'

\* the string a template literal or Array.join renders for a value that may be undefined
RECURSIVE Join(_, _)
\* Array.prototype.join: an undefined element is rendered as the empty string
Join(parts, sep) ==
    IF parts = <<>> THEN <<>>
    ELSE IF Len(parts) = 1 THEN (IF parts[1] = undefined THEN <<>> ELSE Unwrap(parts[1]))
    ELSE (IF parts[1] = undefined THEN <<>> ELSE Unwrap(parts[1])) \o sep \o Join(Tail(parts), sep)

\* Array.prototype.slice / String.prototype.slice (start, end), on 1-based sequences
Slice(s, start, end) ==
    LET len == Len(s)
        from == IF start < 0 THEN (IF len + start < 0 THEN 0 ELSE len + start)
                ELSE (IF start > len THEN len ELSE start)
        to == IF end < 0 THEN (IF len + end < 0 THEN 0 ELSE len + end)
              ELSE (IF end > len THEN len ELSE end)
    IN  IF to <= from THEN <<>> ELSE SubSeq(s, from + 1, to)

\* String.prototype.lastIndexOf(' '): the 0-based index, or -1
LastIndexOfSpace(s) ==
    LET at == {i \in DOMAIN s : s[i] = SPACE[1]}
    IN  IF at = {} THEN -1 ELSE (CHOOSE i \in at : \A j \in at : j <= i) - 1

(***************************************************************************)
(* Vector operations (utils.ts 9-62).                                      *)
(***************************************************************************)
RECURSIVE SumSquares(_)
SumSquares(vec) == IF vec = <<>> THEN 0 ELSE vec[1] * vec[1] + SumSquares(Tail(vec))

\* Math.sqrt, exact on the squares the model's vectors produce
Sqrt(n) == CHOOSE r \in 0..n : r * r <= n /\ (r + 1) * (r + 1) > n

\* normalizeVector(vec, inPlace): the components of the vector returned
normalizeVector(vec, inPlace) ==
    LET magnitude == Sqrt(SumSquares(vec))
    IN  IF magnitude = 0 THEN vec
        ELSE [i \in DOMAIN vec |-> (vec[i] * 10) \div magnitude]

\* a normalizeVector that writes into the input buffer whatever inPlace is
normalizeVectorBuffersShared(vec, inPlace) ==
    LET normalized == normalizeVector(vec, inPlace)
    IN  [vec |-> normalized, returned |-> "vec", result |-> normalized]

\* normalizeVector(vec, inPlace) with its buffers: the input buffer afterwards,
\* the buffer returned ('vec' or the new 'normalized') and its components
normalizeVectorBuffers(vec, inPlace) ==
    LET magnitude == Sqrt(SumSquares(vec))
        normalized == normalizeVector(vec, inPlace)
    IN  IF magnitude = 0 THEN [vec |-> vec, returned |-> "vec", result |-> vec]
        ELSE IF inPlace THEN [vec |-> normalized, returned |-> "vec", result |-> normalized]
        ELSE [vec |-> vec, returned |-> "normalized", result |-> normalized]

RECURSIVE DotUnrolled(_, _, _, _)
\* the 4-way unrolled loop, i counting from 0
DotUnrolled(a, b, i, limit) ==
    IF i < limit
    THEN a[i + 1] * b[i + 1] + a[i + 2] * b[i + 2] + a[i + 3] * b[i + 3] + a[i + 4] * b[i + 4]
         + DotUnrolled(a, b, i + 4, limit)
    ELSE 0

RECURSIVE DotRemainder(_, _, _, _)
\* the loop over the remaining elements
DotRemainder(a, b, i, len) ==
    IF i < len THEN a[i + 1] * b[i + 1] + DotRemainder(a, b, i + 1, len) ELSE 0

\* a dotProduct that does not compare the lengths
dotProductUnchecked(a, b) ==
    LET len == Len(a)
        remainder == len % 4
        limit == len - remainder
    IN  [threw |-> FALSE,
         value |-> DotUnrolled(a, b, 0, limit) + DotRemainder(a, b, limit, len)]

\* a dotProduct without the loop over the remaining elements
dotProductNoRemainder(a, b) ==
    IF Len(a) # Len(b) THEN [threw |-> TRUE, value |-> 0]
    ELSE [threw |-> FALSE, value |-> DotUnrolled(a, b, 0, Len(a) - (Len(a) % 4))]

\* dotProduct(a, b): throws on different lengths, otherwise the sum
dotProduct(a, b) ==
    IF Len(a) # Len(b) THEN [threw |-> TRUE, value |-> 0]
    ELSE LET len == Len(a)
             remainder == len % 4
             limit == len - remainder
         IN  [threw |-> FALSE,
              value |-> DotUnrolled(a, b, 0, limit) + DotRemainder(a, b, limit, len)]

RECURSIVE SumLoop(_, _, _)
\* the loop of the reference dotProduct, i counting from 0
SumLoop(a, b, i) ==
    IF i < Len(a) THEN a[i + 1] * b[i + 1] + SumLoop(a, b, i + 1) ELSE 0

\* the reference dotProduct(a, b), which is not unrolled
dotProductReference(a, b) ==
    IF Len(a) # Len(b) THEN [threw |-> TRUE, value |-> 0]
    ELSE [threw |-> FALSE, value |-> SumLoop(a, b, 0)]

(***************************************************************************)
(* Tool descriptions and the catalog (utils.ts 69-94, 291-310).            *)
(***************************************************************************)
\* a JavaScript truthiness test of a string that may be undefined
Truthy(o) == o # undefined /\ Unwrap(o) # <<>>

generateToolDescription(tool, serverDescription) ==
    LET p0 == <<tool.description>>
        p1 == IF Truthy(serverDescription)
              THEN <<Some(STR_ServerContext \o Unwrap(serverDescription))>> \o p0 ELSE p0
        p2 == IF tool.keywords # undefined /\ Len(Unwrap(tool.keywords)) > 0
              THEN Append(p1, Some(STR_Keywords \o Join(Unwrap(tool.keywords), STR_CommaSpace)))
              ELSE p1
        p3 == IF Truthy(tool.category)
              THEN Append(p2, Some(STR_Category \o Unwrap(tool.category))) ELSE p2
        p4 == IF tool.inputSchema # undefined /\ Unwrap(tool.inputSchema).properties # undefined
                 /\ Len(Unwrap(Unwrap(tool.inputSchema).properties)) > 0
              THEN Append(p3, Some(STR_Parameters
                       \o Join(Unwrap(Unwrap(tool.inputSchema).properties), STR_CommaSpace)))
              ELSE p3
    IN  Join(p4, STR_Bar)

RECURSIVE ServerTools(_, _, _)
\* the inner loop of extractToolsWithMetadata over one server's tools
ServerTools(server, tools, includeServerDescription) ==
    IF tools = <<>> THEN <<>>
    ELSE LET tool == Head(tools)
             serverDesc == IF includeServerDescription THEN server.description ELSE undefined
         IN  <<[serverId |-> server.id, serverName |-> server.name, tool |-> tool,
                description |-> generateToolDescription(tool, serverDesc)]>>
             \o ServerTools(server, Tail(tools), includeServerDescription)

RECURSIVE extractToolsWithMetadata(_, _)
extractToolsWithMetadata(servers, includeServerDescription) ==
    IF servers = <<>> THEN <<>>
    ELSE ServerTools(Head(servers), Head(servers).tools, includeServerDescription)
         \o extractToolsWithMetadata(Tail(servers), includeServerDescription)

(***************************************************************************)
(* The context builder (utils.ts 99-142).                                  *)
(***************************************************************************)
\* a truncateToTokens that cuts at the last space wherever it lies
truncateToTokensAnySpace(text, maxTokens) ==
    LET estimatedChars == maxTokens * 4
        truncated == Slice(text, 0, estimatedChars)
        lastSpace == LastIndexOfSpace(truncated)
    IN  IF Len(text) <= estimatedChars THEN text
        ELSE (IF lastSpace >= 0 THEN Slice(truncated, 0, lastSpace) ELSE truncated)
             \o STR_Ellipsis

truncateToTokens(text, maxTokens) ==
    LET estimatedChars == maxTokens * 4
        truncated == Slice(text, 0, estimatedChars)
        lastSpace == LastIndexOfSpace(truncated)
    IN  IF Len(text) <= estimatedChars THEN text
        ELSE (IF lastSpace * 10 > estimatedChars * 8     \* lastSpace > estimatedChars * 0.8
              THEN Slice(truncated, 0, lastSpace) ELSE truncated) \o STR_Ellipsis

RECURSIVE NonSystem(_)
\* input.filter(msg => msg.role !== 'system')
NonSystem(msgs) ==
    IF msgs = <<>> THEN <<>>
    ELSE IF Head(msgs).role # "system" THEN <<Head(msgs)>> \o NonSystem(Tail(msgs))
         ELSE NonSystem(Tail(msgs))

\* input is [isString |-> TRUE, text |-> string] or [isString |-> FALSE, messages |-> ChatMessage[]]
buildContextString(input, maxMessages, maxTokens) ==
    IF input.isString THEN truncateToTokens(input.text, maxTokens)
    ELSE LET filtered == NonSystem(input.messages)
             \* slice(-maxMessages): -0 is 0, so maxMessages = 0 keeps every message
             relevantMessages == Slice(filtered, 0 - maxMessages, Len(filtered))
             contextParts == [i \in DOMAIN relevantMessages |->
                 Some((IF relevantMessages[i].role = "user" THEN STR_User ELSE STR_Assistant)
                      \o STR_ColonSpace \o relevantMessages[i].content)]
         IN  truncateToTokens(Join(contextParts, STR_BlankLine), maxTokens)

(***************************************************************************)
(* hashString (utils.ts 266-274). A 32-bit integer is kept as two 16-bit   *)
(* halves <<hi, lo>> of its two's complement, so that no product exceeds   *)
(* the range of TLC's integers: ((hash << 5) - hash) + char, cut to 32 bits *)
(* by hash & hash, is hash * 31 + char modulo 2^32.                        *)
(***************************************************************************)
HashStep(h, char) ==
    LET lo == h[2] * 31 + char
        hi == h[1] * 31 + (lo \div 65536)
    IN  <<hi % 65536, lo % 65536>>

RECURSIVE HashLoop(_, _)
\* the loop over the characters; each step's hash is computed (its low half
\* looked at) before the next character is taken
HashLoop(h, str) ==
    IF str = <<>> THEN h
    ELSE LET next == HashStep(h, Head(str))
         IN  IF next[2] >= 0 THEN HashLoop(next, Tail(str)) ELSE next

\* the signed 32-bit integer the two halves stand for
ToInt32(h) == (IF h[1] >= 32768 THEN h[1] - 65536 ELSE h[1]) * 65536 + h[2]

\* one base-36 digit as a character code: 0-9, a-z
Digit36(d) == IF d < 10 THEN 48 + d ELSE 87 + d

RECURSIVE Digits36(_)
\* Number.prototype.toString(36) of a non-negative integer
Digits36(n) == IF n < 36 THEN <<Digit36(n)>> ELSE Append(Digits36(n \div 36), Digit36(n % 36))

\* toString(36) of a negative integer renders the digits of its magnitude after a '-';
\* the last digit is split off first so that the magnitude of -2^31 is never formed
ToString36(n) ==
    IF n >= 0 THEN Digits36(n)
    ELSE LET q == (0 - (n + 1)) \div 36       \* of m = -n: (m - 1) \div 36
             r == (0 - (n + 1)) % 36          \* m - 1 = 36 q + r
         IN  STR_Minus \o (IF r = 35 THEN Digits36(q + 1) \o <<Digit36(0)>>
                           ELSE (IF q = 0 THEN <<>> ELSE Digits36(q)) \o <<Digit36(r + 1)>>)

hashString(str) == ToString36(ToInt32(HashLoop(<<0, 0>>, str)))

(***************************************************************************)
(* MinHeap and partialSort (utils.ts 147-261). Array indices count from 0  *)
(* in the source and from 1 here.                                          *)
(***************************************************************************)
\* the scoring function selectTools hands to partialSort: (tool) => tool.score
scoreFunc(item) == item.score

Swap(heap, i, j) == [heap EXCEPT ![i + 1] = heap[j + 1], ![j + 1] = heap[i + 1]]

RECURSIVE bubbleUp(_, _)
bubbleUp(heap, index) ==
    IF index > 0
    THEN LET parentIndex == (index - 1) \div 2
         IN  IF scoreFunc(heap[index + 1]) >= scoreFunc(heap[parentIndex + 1]) THEN heap
             ELSE bubbleUp(Swap(heap, index, parentIndex), parentIndex)
    ELSE heap

RECURSIVE bubbleDown(_, _)
bubbleDown(heap, index) ==
    LET length == Len(heap)
        leftChild == 2 * index + 1
        rightChild == 2 * index + 2
        m1 == IF leftChild < length /\ scoreFunc(heap[leftChild + 1]) < scoreFunc(heap[index + 1])
              THEN leftChild ELSE index
        minIndex == IF rightChild < length /\ scoreFunc(heap[rightChild + 1]) < scoreFunc(heap[m1 + 1])
                    THEN rightChild ELSE m1
    IN  IF minIndex = index THEN heap
        ELSE bubbleDown(Swap(heap, index, minIndex), minIndex)

HeapPush(heap, item) == bubbleUp(Append(heap, item), Len(heap))

\* pop(): the heap afterwards (the value popped is the heap's first element)
HeapPop(heap) ==
    IF Len(heap) <= 1 THEN <<>>
    ELSE bubbleDown(<<heap[Len(heap)]>> \o SubSeq(heap, 2, Len(heap) - 1), 0)

RECURSIVE toSortedArray(_)
\* pops every element, each placed in front of those popped before it
toSortedArray(heap) ==
    IF heap = <<>> THEN <<>> ELSE toSortedArray(HeapPop(heap)) \o <<heap[1]>>

RECURSIVE HeapSelect(_, _, _, _, _)
\* the loop of partialSort over items[first..last]: the heap afterwards. The range
\* is halved and the first half's heap computed (its length taken) before the
\* second half is entered, so that the nesting stays shallow on a pool of hundreds.
HeapSelect(heap, items, k, first, last) ==
    IF first > last THEN heap
    ELSE IF first = last
    THEN LET item == items[first]
         IN  IF Len(heap) < k THEN HeapPush(heap, item)
             ELSE IF scoreFunc(item) > scoreFunc(heap[1])
                  THEN HeapPush(HeapPop(heap), item)
                  ELSE heap
    ELSE LET middle == (first + last) \div 2
             firstHalf == HeapSelect(heap, items, k, first, middle)
         IN  IF Len(firstHalf) >= 0 THEN HeapSelect(firstHalf, items, k, middle + 1, last)
             ELSE firstHalf

\* x placed behind every element that does not score less than it
InsertDescending(sorted, x) ==
    LET ahead == Cardinality({i \in DOMAIN sorted : scoreFunc(sorted[i]) >= scoreFunc(x)})
    IN  SubSeq(sorted, 1, ahead) \o <<x>> \o SubSeq(sorted, ahead + 1, Len(sorted))

RECURSIVE SortRange(_, _, _, _)
\* items[first..last] inserted one after the other into sorted (halved as above)
SortRange(sorted, items, first, last) ==
    IF first > last THEN sorted
    ELSE IF first = last THEN InsertDescending(sorted, items[first])
    ELSE LET middle == (first + last) \div 2
             firstHalf == SortRange(sorted, items, first, middle)
         IN  IF Len(firstHalf) >= 0 THEN SortRange(firstHalf, items, middle + 1, last)
             ELSE firstHalf

\* items.sort((a, b) => scoreFunc(b) - scoreFunc(a)): Array.prototype.sort is stable
SortDescending(sorted, items) == SortRange(sorted, items, 1, Len(items))

\* the pool size from which partialSort selects with the heap
HeapThreshold == 500

\* a partialSort that always returns one item more than it was asked for
partialSortOneMore(items, k) == Slice(SortDescending(<<>>, items), 0, (IF k < 0 THEN 0 ELSE k) + 1)

\* a partialSort that takes the first k items as they come
partialSortUnsorted(items, k) == Slice(items, 0, IF k < 0 THEN 0 ELSE k)

\* the comparison sort of partialSort: items.sort(...).slice(0, k)
SortPolicy(items, k) == Slice(SortDescending(<<>>, items), 0, k)

\* the heap selection of partialSort: the k best kept in a MinHeap, then popped
\* a heap selection that keeps the first k items and passes over the others
HeapPolicyFirstK(items, k) == toSortedArray(HeapSelect(<<>>, items, k, 1, k))

\* the heap selection of partialSort and its toSortedArray
HeapPolicy(items, k) == toSortedArray(HeapSelect(<<>>, items, k, 1, Len(items)))

partialSort(items, k) ==
    IF k <= 0 THEN <<>>
    ELSE IF k >= Len(items) THEN SortDescending(<<>>, items)
    ELSE IF Len(items) < HeapThreshold THEN SortPolicy(items, k)
    ELSE HeapPolicy(items, k)

(***************************************************************************)
(* MCPToolFilter.computeSimilarities and selectTools (MCPToolFilter.ts).   *)
(***************************************************************************)
getToolKey(serverId, toolName) == serverId \o STR_KeySeparator \o toolName

RECURSIVE ScoreEntries(_, _, _, _)
\* the loop over toolEmbeddings.entries(): [threw, scores]
ScoreEntries(entries, metadataMap, contextEmbedding, excludeSet) ==
    IF entries = <<>> THEN [threw |-> FALSE, scores |-> <<>>]
    ELSE LET metadata == Unwrap(MapGet(metadataMap, Head(entries).key))
             rest == ScoreEntries(Tail(entries), metadataMap, contextEmbedding, excludeSet)
             dot == dotProduct(contextEmbedding, Head(entries).value)
         IN  IF metadata.tool.name \in excludeSet THEN rest
             ELSE IF dot.threw THEN [threw |-> TRUE, scores |-> <<>>]
             ELSE IF rest.threw THEN rest
             ELSE [threw |-> FALSE,
                   scores |-> <<[serverId |-> metadata.serverId,
                                 toolName |-> metadata.tool.name,
                                 tool |-> metadata.tool,
                                 score |-> dot.value]>> \o rest.scores]

\* a computeSimilarities that scores the excluded tools too
computeSimilaritiesNoExclude(embeddings, metadataMap, contextEmbedding, options) ==
    ScoreEntries(embeddings, metadataMap, contextEmbedding, {})

\* computeSimilarities(contextEmbedding, options) on this.toolEmbeddings, this.toolMetadata
computeSimilarities(embeddings, metadataMap, contextEmbedding, options) ==
    ScoreEntries(embeddings, metadataMap, contextEmbedding, Range(options.exclude))

RECURSIVE Partition(_, _, _, _)
\* the partition loop of selectTools: the candidates named in alwaysInclude
\* (forced = TRUE), or the others that reach minScore (forced = FALSE)
Partition(scores, alwaysIncludeSet, minScore, forced) ==
    IF scores = <<>> THEN <<>>
    ELSE LET scored == Head(scores)
             rest == Partition(Tail(scores), alwaysIncludeSet, minScore, forced)
         IN  IF scored.toolName \in alwaysIncludeSet
             THEN (IF forced THEN <<scored>> \o rest ELSE rest)
             ELSE IF scored.score >= minScore
                  THEN (IF forced THEN rest ELSE <<scored>> \o rest)
                  ELSE rest

\* a selectTools that holds the always-included tools to minScore as well
selectToolsThresholdAll(scores, options) ==
    partialSort(Partition(scores, {}, options.minScore, FALSE), options.topK)

\* a selectTools whose always-included tools do not use up topK
selectToolsForcedFree(scores, options) ==
    Partition(scores, Range(options.alwaysInclude), options.minScore, TRUE)
    \o partialSort(Partition(scores, Range(options.alwaysInclude), options.minScore, FALSE),
                   options.topK)

\* a selectTools that does not apply minScore
selectToolsNoThreshold(scores, options) ==
    LET alwaysIncluded == Partition(scores, Range(options.alwaysInclude), options.minScore, TRUE)
        others == Partition(scores, Range(options.alwaysInclude), -10000, FALSE)
        slots == options.topK - Len(alwaysIncluded)
    IN  alwaysIncluded \o partialSort(others, IF slots < 0 THEN 0 ELSE slots)

\* a selectTools that counts the names of alwaysInclude against topK, not the
\* candidates they name
selectToolsCountsNames(scores, options) ==
    LET alwaysIncludeSet == Range(options.alwaysInclude)
        slots == options.topK - Len(options.alwaysInclude)
    IN  Partition(scores, alwaysIncludeSet, options.minScore, TRUE)
        \o partialSort(Partition(scores, alwaysIncludeSet, options.minScore, FALSE),
                       IF slots > 0 THEN slots ELSE 0)

\* a selectTools that lists the always-included tools last
selectToolsForcedLast(scores, options) ==
    LET alwaysIncludeSet == Range(options.alwaysInclude)
        alwaysIncluded == Partition(scores, alwaysIncludeSet, options.minScore, TRUE)
        slots == options.topK - Len(alwaysIncluded)
    IN  partialSort(Partition(scores, alwaysIncludeSet, options.minScore, FALSE),
                    IF slots > 0 THEN slots ELSE 0)
        \o alwaysIncluded

\* a selectTools that ranks the always-included tools with the others as well
selectToolsForcedTwice(scores, options) ==
    LET alwaysIncluded == Partition(scores, Range(options.alwaysInclude), options.minScore, TRUE)
        scoredTools == Partition(scores, {}, options.minScore, FALSE)
        slots == options.topK - Len(alwaysIncluded)
    IN  alwaysIncluded \o partialSort(scoredTools, IF slots > 0 THEN slots ELSE 0)

\* selectTools(scores, options)
selectTools(scores, options) ==
    LET alwaysIncludeSet == Range(options.alwaysInclude)
        alwaysIncluded == Partition(scores, alwaysIncludeSet, options.minScore, TRUE)
        scoredTools == Partition(scores, alwaysIncludeSet, options.minScore, FALSE)
        remainingSlots == IF options.topK - Len(alwaysIncluded) > 0
                          THEN options.topK - Len(alwaysIncluded) ELSE 0
        topScored == partialSort(scoredTools, remainingSlots)
    IN  alwaysIncluded \o topScored

(***************************************************************************)
(* The catalog, the requests and the embedding provider's answers the      *)
(* model draws from. Tool names and server ids are abbreviated.            *)
(***************************************************************************)
email_search == <<101, 115>>       \* 'es'
calendar_list == <<99, 108>>       \* 'cl'
web_search == <<119, 115>>         \* 'ws'

Tool(name, description, keywords) ==
    [name |-> name, description |-> description, keywords |-> keywords,
     category |-> undefined, inputSchema |-> undefined]

Server(id, tools) ==
    [id |-> id, name |-> id, description |-> undefined, tools |-> tools]

ServerOne ==
    Server(<<115, 49>>,                                   \* 's1'
           <<Tool(email_search, Some(<<109>>), Some(<<Some(<<105>>)>>)),     \* 'm', ['i']
             Tool(calendar_list, Some(<<100>>), undefined)>>)                \* 'd'
ServerTwo ==
    Server(<<115, 50>>, <<Tool(web_search, Some(<<119>>), undefined)>>)      \* 's2', 'w'
\* the server 's2' listed once more, its web_search described otherwise
ServerTwoAgain ==
    Server(<<115, 50>>, <<Tool(web_search, Some(<<110>>), undefined)>>)      \* 's2', 'n'
\* the catalogs initialize is called with: three tools, and one tool listed twice
Catalogs == {<<ServerOne, ServerTwo>>, <<ServerTwo, ServerTwoAgain>>}

\* The provider's embedding of a tool description, read off its first character:
\* vectors of magnitude 2.0 and 1.0, whose directions score 0.9, 0.3 and 0.1
\* against the context vector <<20, 0, 0, 0>>.
EmbedText(text) ==
    IF text = <<>> THEN <<0, 0, 0, 0>>
    ELSE CASE text[1] = 109 -> <<18, 6, 6, 2>>        \* 'm...'
           [] text[1] = 100 -> <<3, 9, 3, 1>>         \* 'd...'
           [] text[1] = 119 -> <<1, 9, 3, 3>>         \* 'w...'
           [] OTHER -> <<6, 2, 18, 6>>

\* embedBatch(texts) resolves with one vector per text, or with one too few
BatchResults(texts) ==
    {[i \in 1..n |-> EmbedText(texts[i])] : n \in {Len(texts), Len(texts) - 1} \cap Nat}

\* what embed may resolve with for a context: magnitudes 2.0 and 1.0, and one
\* vector of another dimension
ContextVectors == {<<20, 0, 0, 0>>, <<1, 9, 3, 3>>, <<6, 8>>}

StringInput(text) == [isString |-> TRUE, text |-> text, messages |-> <<>>]
MessagesInput(messages) == [isString |-> FALSE, text |-> <<>>, messages |-> messages]
FilterInputs ==
    {StringInput(<<65, 97>>),                                             \* 'Aa'
     StringInput(<<66, 66>>),                                             \* 'BB'
     MessagesInput(<<[role |-> "system", content |-> <<115>>],
                     [role |-> "user", content |-> <<65, 97>>]>>)}

NoOptions ==
    [topK |-> undefined, minScore |-> undefined, contextMessages |-> undefined,
     alwaysInclude |-> undefined, exclude |-> undefined, maxContextTokens |-> undefined]
\* the options a request may carry: none, or a FilterOptions object
RequestOptions ==
    {undefined,
     Some([NoOptions EXCEPT !.topK = Some(1), !.alwaysInclude = Some(<<web_search>>),
                            !.exclude = Some(<<calendar_list>>)])}
MaxCalls == 2
MaxElapsed == 1
CallIds == 1..MaxCalls

(***************************************************************************)
(* MCPToolFilter (MCPToolFilter.ts).                                       *)
(***************************************************************************)
\* a ?? b
Nullish(a, b) == IF a # undefined THEN a ELSE b

\* a ?? b for a field f of an options object that may be missing
FieldOr(options, f, b) ==
    IF options # undefined /\ Unwrap(options)[f] # undefined /\ Unwrap(options)[f] # Some(0)
    THEN Unwrap(options)[f] ELSE b

\* a merge with || in the place of ??: a given 0 falls through to the default
mergeOptionsFalsy(options, defaultOptions) ==
    [topK |-> Unwrap(FieldOr(options, "topK", FieldOr(defaultOptions, "topK", Some(20)))),
     minScore |->
         Unwrap(FieldOr(options, "minScore", FieldOr(defaultOptions, "minScore", Some(30)))),
     contextMessages |->
         Unwrap(FieldOr(options, "contextMessages",
                        FieldOr(defaultOptions, "contextMessages", Some(3)))),
     alwaysInclude |->
         Unwrap(FieldOr(options, "alwaysInclude",
                        FieldOr(defaultOptions, "alwaysInclude", Some(<<>>)))),
     exclude |-> Unwrap(FieldOr(options, "exclude", FieldOr(defaultOptions, "exclude", Some(<<>>)))),
     maxContextTokens |->
         Unwrap(FieldOr(options, "maxContextTokens",
                        FieldOr(defaultOptions, "maxContextTokens", Some(500))))]

\* options?.field ?? this.config.defaultOptions?.field ?? the built-in default
mergeOptions(options, defaultOptions) ==
    LET o == IF options = undefined THEN NoOptions ELSE Unwrap(options)
        d == IF defaultOptions = undefined THEN NoOptions ELSE Unwrap(defaultOptions)
    IN  [topK |-> Unwrap(Nullish(o.topK, Nullish(d.topK, Some(20)))),
         minScore |-> Unwrap(Nullish(o.minScore, Nullish(d.minScore, Some(30)))),
         contextMessages |->
             Unwrap(Nullish(o.contextMessages, Nullish(d.contextMessages, Some(3)))),
         alwaysInclude |->
             Unwrap(Nullish(o.alwaysInclude, Nullish(d.alwaysInclude, Some(<<>>)))),
         exclude |-> Unwrap(Nullish(o.exclude, Nullish(d.exclude, Some(<<>>)))),
         maxContextTokens |->
             Unwrap(Nullish(o.maxContextTokens, Nullish(d.maxContextTokens, Some(500))))]

RECURSIVE StoreEmbeddings(_, _, _, _, _)
\* the loop of initialize over the tools, from index i: normalizeVector(embeddings[i])
\* throws on a missing vector, and what was stored before it stays stored
StoreEmbeddings(tools, embeddings, i, embeddingsMap, metadataMap) ==
    IF i > Len(tools)
    THEN [threw |-> FALSE, toolEmbeddings |-> embeddingsMap, toolMetadata |-> metadataMap]
    ELSE IF i > Len(embeddings)
    THEN [threw |-> TRUE, toolEmbeddings |-> embeddingsMap, toolMetadata |-> metadataMap]
    ELSE LET toolKey == getToolKey(tools[i].serverId, tools[i].tool.name)
             normalized == normalizeVector(embeddings[i], FALSE)
         IN  StoreEmbeddings(tools, embeddings, i + 1,
                             MapSet(embeddingsMap, toolKey, normalized),
                             MapSet(metadataMap, toolKey, tools[i]))

Idle == [pc |-> "idle"]

\* what a step gave its caller; the fields a step does not set keep these values
NoResp ==
    [op |-> "new", call |-> 0, status |-> "ok", error |-> "", input |-> StringInput(<<>>),
     options |-> undefined, tools |-> <<>>, embeddingTime |-> 0, toolsEvaluated |-> 0,
     cacheHit |-> FALSE, providerCalled |-> FALSE, stats |-> undefined,
     opts |-> mergeOptions(undefined, undefined), scores |-> <<>>, servers |-> <<>>]

\* a call that starts takes the first free slot
FreeSlot(c) == calls[c] = Idle /\ \A d \in CallIds : d < c => calls[d] # Idle

\* initialize(servers) up to its await: embedBatch is called with the descriptions
InitializeStart(c, servers) ==
    /\ FreeSlot(c)
    /\ LET tools == extractToolsWithMetadata(servers, FALSE)
           descriptions == [i \in DOMAIN tools |-> tools[i].description]
       IN  /\ calls' = [calls EXCEPT ![c] =
                           [pc |-> "embedBatch", servers |-> servers, tools |-> tools,
                            descriptions |-> descriptions]]
           /\ resp' = [NoResp EXCEPT !.op = "initialize", !.call = c, !.status = "pending",
                                     !.servers = servers, !.providerCalled = TRUE]
    /\ UNCHANGED <<config, initialized, toolEmbeddings, toolMetadata, contextCache, lruVars, sortVars, utilVars>>

\* embedBatch resolved: the embeddings are normalized and stored, then initialized is set
InitializeResume(c) ==
    /\ calls[c].pc = "embedBatch"
    /\ \E embeddings \in BatchResults(calls[c].descriptions) :
       LET stored == StoreEmbeddings(calls[c].tools, embeddings, 1, toolEmbeddings, toolMetadata)
       IN  /\ toolEmbeddings' = stored.toolEmbeddings
           /\ toolMetadata' = stored.toolMetadata
           /\ initialized' = IF stored.threw THEN initialized ELSE TRUE
           /\ resp' = [NoResp EXCEPT !.op = "initialize", !.call = c,
                                     !.servers = calls[c].servers,
                                     !.status = IF stored.threw THEN "error" ELSE "ok",
                                     !.error = IF stored.threw THEN "TypeError" ELSE ""]
    /\ calls' = [calls EXCEPT ![c] = Idle]
    /\ UNCHANGED <<config, contextCache, lruVars, sortVars, utilVars>>

\* embedBatch rejected: the error goes to the caller of initialize
InitializeReject(c) ==
    /\ calls[c].pc = "embedBatch"
    /\ calls' = [calls EXCEPT ![c] = Idle]
    /\ resp' = [NoResp EXCEPT !.op = "initialize", !.call = c, !.status = "error",
                              !.servers = calls[c].servers, !.error = "ProviderFailure"]
    /\ UNCHANGED <<config, initialized, toolEmbeddings, toolMetadata, contextCache, lruVars, sortVars, utilVars>>

\* filter, from the similarities on (MCPToolFilter.ts, 'Compute similarities' to return)
FilterResult(c, input, options, opts, contextEmbedding, embeddingTime, hit) ==
    LET sims == computeSimilarities(toolEmbeddings, toolMetadata, contextEmbedding, opts)
    IN  IF sims.threw
        THEN [NoResp EXCEPT !.op = "filter", !.call = c, !.status = "error",
                            !.error = "DimensionMismatch", !.input = input,
                            !.options = options, !.opts = opts, !.cacheHit = hit]
        ELSE [NoResp EXCEPT !.op = "filter", !.call = c, !.status = "ok", !.input = input,
                            !.options = options, !.opts = opts, !.cacheHit = hit,
                            !.scores = sims.scores,
                            !.tools = selectTools(sims.scores, opts),
                            !.embeddingTime = embeddingTime,
                            !.toolsEvaluated = MapSize(toolEmbeddings)]

\* a filter that runs although initialize has not completed
FilterStartUnchecked(c, input, options) ==
    /\ FreeSlot(c)
    /\ LET opts == mergeOptions(options, config.defaultOptions)
           contextString == buildContextString(input, opts.contextMessages, opts.maxContextTokens)
       IN  /\ calls' = [calls EXCEPT ![c] =
                           [pc |-> "embed", input |-> input, options |-> options, opts |-> opts,
                            contextString |-> contextString,
                            contextHash |-> hashString(contextString)]]
           /\ resp' = [NoResp EXCEPT !.op = "filter", !.call = c, !.status = "pending",
                                     !.input = input, !.options = options,
                                     !.providerCalled = TRUE]
    /\ UNCHANGED <<config, contextCache, initialized, toolEmbeddings, toolMetadata, lruVars, sortVars, utilVars>>

\* a filter that, started while another call is in flight, waits for that call
FilterStartQueues(c, input, options) ==
    /\ FreeSlot(c)
    /\ IF \E d \in CallIds \ {c} : calls[d] # Idle
       THEN /\ calls' = [calls EXCEPT ![c] = [pc |-> "queued", input |-> input,
                                               options |-> options]]
            /\ resp' = [NoResp EXCEPT !.op = "filter", !.call = c, !.status = "pending",
                                      !.input = input, !.options = options]
            /\ UNCHANGED contextCache
       ELSE IF ~initialized
       THEN /\ resp' = [NoResp EXCEPT !.op = "filter", !.call = c, !.status = "error",
                                      !.error = "Uninitialized", !.input = input,
                                      !.options = options]
            /\ UNCHANGED <<contextCache, calls>>
       ELSE LET opts == mergeOptions(options, config.defaultOptions)
                contextString ==
                    buildContextString(input, opts.contextMessages, opts.maxContextTokens)
                contextHash == hashString(contextString)
                cachedEmbedding == LRUGetValue(contextCache, contextHash)
            IN  /\ contextCache' = LRUGet(contextCache, contextHash)
                /\ IF cachedEmbedding # undefined
                   THEN /\ resp' = FilterResult(c, input, options, opts,
                                                Unwrap(cachedEmbedding), 0, TRUE)
                        /\ UNCHANGED calls
                   ELSE /\ calls' = [calls EXCEPT ![c] =
                                        [pc |-> "embed", input |-> input, options |-> options,
                                         opts |-> opts, contextString |-> contextString,
                                         contextHash |-> contextHash]]
                        /\ resp' = [NoResp EXCEPT !.op = "filter", !.call = c,
                                                  !.status = "pending", !.input = input,
                                                  !.options = options, !.providerCalled = TRUE]
    /\ UNCHANGED <<config, initialized, toolEmbeddings, toolMetadata, lruVars, sortVars, utilVars>>

\* filter(input, options) up to its await, or to its end on a cache hit
FilterStart(c, input, options) ==
    /\ FreeSlot(c)
    /\ IF ~initialized
       THEN /\ resp' = [NoResp EXCEPT !.op = "filter", !.call = c, !.status = "error",
                                      !.error = "Uninitialized", !.input = input,
                                      !.options = options]
            /\ UNCHANGED <<contextCache, calls>>
       ELSE LET opts == mergeOptions(options, config.defaultOptions)
                contextString ==
                    buildContextString(input, opts.contextMessages, opts.maxContextTokens)
                contextHash == hashString(contextString)
                cachedEmbedding == LRUGetValue(contextCache, contextHash)
            IN  /\ contextCache' = LRUGet(contextCache, contextHash)
                /\ IF cachedEmbedding # undefined
                   THEN /\ resp' = FilterResult(c, input, options, opts,
                                                Unwrap(cachedEmbedding), 0, TRUE)
                        /\ UNCHANGED calls
                   ELSE /\ calls' = [calls EXCEPT ![c] =
                                        [pc |-> "embed", input |-> input, options |-> options,
                                         opts |-> opts, contextString |-> contextString,
                                         contextHash |-> contextHash]]
                        /\ resp' = [NoResp EXCEPT !.op = "filter", !.call = c,
                                                  !.status = "pending", !.input = input,
                                                  !.options = options, !.providerCalled = TRUE]
    /\ UNCHANGED <<config, initialized, toolEmbeddings, toolMetadata, lruVars, sortVars, utilVars>>

\* a resume that does not store the embedding in the cache
FilterResumeNoCache(c, rawEmbedding, elapsed) ==
    /\ calls[c].pc = "embed"
    /\ resp' = FilterResult(c, calls[c].input, calls[c].options, calls[c].opts,
                            normalizeVector(rawEmbedding, TRUE), elapsed, FALSE)
    /\ calls' = [calls EXCEPT ![c] = Idle]
    /\ UNCHANGED <<config, contextCache, initialized, toolEmbeddings, toolMetadata, lruVars, sortVars, utilVars>>

\* a resume that normalizes a copy and caches the raw embedding
FilterResumeCachesRaw(c, rawEmbedding, elapsed) ==
    /\ calls[c].pc = "embed"
    /\ contextCache' = LRUSet(contextCache, MAX_CACHE_SIZE, calls[c].contextHash, rawEmbedding)
    /\ resp' = FilterResult(c, calls[c].input, calls[c].options, calls[c].opts,
                            normalizeVector(rawEmbedding, FALSE), elapsed, FALSE)
    /\ calls' = [calls EXCEPT ![c] = Idle]
    /\ UNCHANGED <<config, initialized, toolEmbeddings, toolMetadata, lruVars, sortVars, utilVars>>

\* embed resolved: the embedding is normalized in place and cached, the tools are
\* scored and selected
FilterResume(c, rawEmbedding, elapsed) ==
    /\ calls[c].pc = "embed"
    /\ LET contextEmbedding == normalizeVector(rawEmbedding, TRUE)
       IN  /\ contextCache' = LRUSet(contextCache, MAX_CACHE_SIZE,
                                     calls[c].contextHash, contextEmbedding)
           /\ resp' = FilterResult(c, calls[c].input, calls[c].options, calls[c].opts,
                                   contextEmbedding, elapsed, FALSE)
    /\ calls' = [calls EXCEPT ![c] = Idle]
    /\ UNCHANGED <<config, initialized, toolEmbeddings, toolMetadata, lruVars, sortVars, utilVars>>

\* a rejected embed that is tried again
FilterRejectRetries(c) ==
    /\ calls[c].pc = "embed"
    /\ resp' = [NoResp EXCEPT !.op = "filter", !.call = c, !.status = "pending",
                              !.input = calls[c].input, !.options = calls[c].options,
                              !.providerCalled = TRUE]
    /\ UNCHANGED <<config, initialized, toolEmbeddings, toolMetadata, contextCache, calls,
                   lruVars, sortVars, utilVars>>

\* a rejected embed that leaves an entry without vector for the context
FilterRejectInserts(c) ==
    /\ calls[c].pc = "embed"
    /\ calls' = [calls EXCEPT ![c] = Idle]
    /\ contextCache' = LRUSet(contextCache, MAX_CACHE_SIZE, calls[c].contextHash, <<>>)
    /\ resp' = [NoResp EXCEPT !.op = "filter", !.call = c, !.status = "error",
                              !.error = "ProviderFailure", !.input = calls[c].input,
                              !.options = calls[c].options]
    /\ UNCHANGED <<config, initialized, toolEmbeddings, toolMetadata, lruVars, sortVars, utilVars>>

\* embed rejected: the error goes to the caller of filter
FilterReject(c) ==
    /\ calls[c].pc = "embed"
    /\ calls' = [calls EXCEPT ![c] = Idle]
    /\ resp' = [NoResp EXCEPT !.op = "filter", !.call = c, !.status = "error",
                              !.error = "ProviderFailure", !.input = calls[c].input,
                              !.options = calls[c].options]
    /\ UNCHANGED <<config, initialized, toolEmbeddings, toolMetadata, contextCache, lruVars, sortVars, utilVars>>

ClearCacheReturned == [NoResp EXCEPT !.op = "clearCache"]

\* a clearCache that drops the tools as well
ClearCacheAndRegistry ==
    /\ contextCache' = LRUClear(contextCache)
    /\ toolEmbeddings' = <<>>
    /\ toolMetadata' = <<>>
    /\ resp' = ClearCacheReturned
    /\ UNCHANGED <<config, initialized, calls, lruVars, sortVars, utilVars>>

\* clearCache()
ClearCache ==
    /\ contextCache' = LRUClear(contextCache)
    /\ resp' = ClearCacheReturned
    /\ UNCHANGED <<config, initialized, toolEmbeddings, toolMetadata, calls, lruVars, sortVars, utilVars>>

\* getStats(), which isInitialized() is a part of
GetStats ==
    /\ resp' = [NoResp EXCEPT !.op = "getStats",
                              !.stats = Some([initialized |-> initialized,
                                              toolCount |-> MapSize(toolEmbeddings),
                                              cacheSize |-> LRUSize(contextCache)])]
    /\ UNCHANGED <<config, initialized, toolEmbeddings, toolMetadata, contextCache, calls,
                   lruVars, sortVars, utilVars>>

Next ==
    \/ \E c \in CallIds, servers \in Catalogs : InitializeStart(c, servers)
    \/ \E c \in CallIds : InitializeResume(c)
    \/ \E c \in CallIds : InitializeReject(c)
    \/ \E c \in CallIds, input \in FilterInputs, options \in RequestOptions :
           FilterStart(c, input, options)
    \/ \E c \in CallIds, rawEmbedding \in ContextVectors, elapsed \in 0..MaxElapsed :
           FilterResume(c, rawEmbedding, elapsed)
    \/ \E c \in CallIds : FilterReject(c)
    \/ ClearCache
    \/ GetStats

\* the stand-alone cache plays no part in the filter's runs
LIdle ==
    /\ lruMax = MAX_CACHE_SIZE
    /\ lru = <<>>
    /\ lruOut = LNew
    /\ lastTouch = NeverTouched
    /\ now = 0

\* the filter the stand-alone cache's runs leave alone
FIdle ==
    /\ config = [defaultOptions |-> undefined]
    /\ initialized = FALSE
    /\ toolEmbeddings = <<>>
    /\ toolMetadata = <<>>
    /\ contextCache = <<>>
    /\ calls = [c \in CallIds |-> Idle]
    /\ resp = NoResp

\* no stand-alone call of partialSort
SIdle ==
    /\ sortIn = undefined
    /\ sortOut = undefined

\* no stand-alone call of the vector and string utilities
UIdle ==
    /\ utilIn = undefined
    /\ utilOut = undefined

Init == LIdle /\ FIdle /\ SIdle /\ UIdle
Spec == Init /\ [][Next]_vars

InitLRU == LInit /\ FIdle /\ SIdle /\ UIdle
SpecLRU == InitLRU /\ [][LNext]_vars

(***************************************************************************)
(* One caller at a time on a filter whose initialize has completed, with   *)
(* the requests' options drawn widely.                                     *)
(***************************************************************************)
MaxTopK == 3
TopKs == -1..MaxTopK
MinScores == {20, 30}
AlwaysIncludes == {<<>>, <<web_search>>, <<web_search, email_search>>}
Excludes == {<<>>, <<web_search>>, <<email_search>>}
WideOptions ==
    {undefined} \cup
    {Some([NoOptions EXCEPT !.topK = Some(k), !.minScore = Some(m),
                            !.alwaysInclude = Some(a), !.exclude = Some(e)]) :
        k \in TopKs, m \in MinScores, a \in AlwaysIncludes, e \in Excludes}

\* the catalogs the filter was built from: the three tools in two orders, one
\* with email_search on two servers, one with two tools described alike, and
\* one with web_search alone
BuiltCatalogs ==
    {<<ServerOne, ServerTwo>>,
     <<ServerTwo>>,
     <<ServerTwo, Server(<<115, 49>>, <<Tool(calendar_list, Some(<<100>>), undefined),
                                        Tool(email_search, Some(<<109>>), undefined)>>)>>,
     <<ServerTwo, Server(<<115, 50>>, <<Tool(email_search, Some(<<100>>), undefined)>>),
       Server(<<115, 49>>, <<Tool(email_search, Some(<<109>>), undefined)>>)>>,
     <<Server(<<115, 49>>, <<Tool(calendar_list, Some(<<109>>), undefined),
                             Tool(email_search, Some(<<109>>), undefined)>>),
       ServerTwo>>}

\* the context its callers ask with
BuiltInputs == {StringInput(<<65, 97>>)}                                  \* 'Aa'

InitFilter ==
    /\ LIdle
    /\ SIdle
    /\ UIdle
    /\ config = [defaultOptions |-> undefined]
    /\ initialized = TRUE
    /\ \E servers \in BuiltCatalogs :
         LET tools == extractToolsWithMetadata(servers, FALSE)
             embeddings == [i \in 1..Len(tools) |-> EmbedText(tools[i].description)]
             stored == StoreEmbeddings(tools, embeddings, 1, <<>>, <<>>)
         IN
             /\ toolEmbeddings = stored.toolEmbeddings
             /\ toolMetadata = stored.toolMetadata
    /\ contextCache = <<>>
    /\ calls = [c \in CallIds |-> Idle]
    /\ resp = NoResp

NextFilter ==
    \/ \E input \in BuiltInputs, options \in WideOptions : FilterStart(1, input, options)
    \/ \E rawEmbedding \in ContextVectors, elapsed \in 0..MaxElapsed :
           FilterResume(1, rawEmbedding, elapsed)
    \/ FilterReject(1)

SpecFilter == InitFilter /\ [][NextFilter]_vars

(***************************************************************************)
(* One caller at a time on a new filter, with the catalogs drawn widely.   *)
(***************************************************************************)
\* server ids and tool names that hold the separator of getToolKey
ID_a == <<97>>                                           \* 'a'
ID_a_b == <<97, 58, 58, 98>>                             \* 'a::b'
NAME_c == <<99>>                                         \* 'c'
NAME_b_c == <<98, 58, 58, 99>>                           \* 'b::c'

\* the catalogs initialize is called with: three tools; one pair listed twice;
\* two pairs whose keys read alike; a tool that lacks its description; no server
BuildCatalogs ==
    {<<ServerOne, ServerTwo>>,
     <<ServerTwo, ServerTwoAgain>>,
     <<Server(ID_a_b, <<Tool(NAME_c, Some(<<109>>), undefined)>>),
       Server(ID_a, <<Tool(NAME_b_c, Some(<<100>>), undefined)>>)>>,
     <<Server(<<115, 49>>, <<Tool(email_search, undefined, undefined)>>)>>,
     <<>>}

InitBuild == LIdle /\ FIdle /\ SIdle /\ UIdle

NextBuild ==
    \/ \E servers \in BuildCatalogs : InitializeStart(1, servers)
    \/ InitializeResume(1)
    \/ InitializeReject(1)
    \/ \E input \in BuiltInputs : FilterStart(1, input, undefined)
    \/ \E rawEmbedding \in ContextVectors, elapsed \in 0..MaxElapsed :
           FilterResume(1, rawEmbedding, elapsed)
    \/ FilterReject(1)
    \/ GetStats

SpecBuild == InitBuild /\ [][NextBuild]_vars

(***************************************************************************)
(* The filter constructed with defaultOptions, built from one catalog and  *)
(* asked with requests that give some options, also as 0 or an empty list. *)
(***************************************************************************)
\* options objects that give one field as 0 or as an empty list
ZeroOptions ==
    {[NoOptions EXCEPT !.topK = Some(0)],
     [NoOptions EXCEPT !.minScore = Some(0)],
     [NoOptions EXCEPT !.contextMessages = Some(0)],
     [NoOptions EXCEPT !.alwaysInclude = Some(<<>>)],
     [NoOptions EXCEPT !.exclude = Some(<<>>)],
     [NoOptions EXCEPT !.maxContextTokens = Some(0)]}
\* options objects that give every field
RequestGivesAll ==
    [topK |-> Some(2), minScore |-> Some(20), contextMessages |-> Some(1),
     alwaysInclude |-> Some(<<web_search>>), exclude |-> Some(<<calendar_list>>),
     maxContextTokens |-> Some(1)]
DefaultGivesAll ==
    [topK |-> Some(1), minScore |-> Some(10), contextMessages |-> Some(2),
     alwaysInclude |-> Some(<<email_search>>), exclude |-> Some(<<web_search>>),
     maxContextTokens |-> Some(2)]
MergeRequests == {undefined, Some(NoOptions), Some(RequestGivesAll)} \cup {Some(o) : o \in ZeroOptions}
MergeDefaults == {undefined, Some(NoOptions), Some(DefaultGivesAll)} \cup {Some(o) : o \in ZeroOptions}
\* a conversation of a user message, a system message and an assistant message
MergeInputs ==
    {MessagesInput(<<[role |-> "user", content |-> <<66, 66>>],
                     [role |-> "system", content |-> <<115>>],
                     [role |-> "assistant", content |-> <<99>>]>>)}
MergeCatalog == <<ServerOne, ServerTwo>>

InitMerge ==
    /\ LIdle
    /\ SIdle
    /\ UIdle
    /\ config \in {[defaultOptions |-> d] : d \in MergeDefaults}
    /\ initialized = TRUE
    /\ LET tools == extractToolsWithMetadata(MergeCatalog, FALSE)
           embeddings == [i \in 1..Len(tools) |-> EmbedText(tools[i].description)]
           stored == StoreEmbeddings(tools, embeddings, 1, <<>>, <<>>)
       IN  /\ toolEmbeddings = stored.toolEmbeddings
           /\ toolMetadata = stored.toolMetadata
    /\ contextCache = <<>>
    /\ calls = [c \in CallIds |-> Idle]
    /\ resp = NoResp

\* what embed resolves with: a vector of magnitude 2.0, or the all-zero vector
MergeVectors == {<<20, 0, 0, 0>>, <<0, 0, 0, 0>>}

NextMerge ==
    \/ \E input \in MergeInputs, options \in MergeRequests : FilterStart(1, input, options)
    \/ \E rawEmbedding \in MergeVectors, elapsed \in 0..MaxElapsed :
           FilterResume(1, rawEmbedding, elapsed)
    \/ FilterReject(1)

SpecMerge == InitMerge /\ [][NextMerge]_vars

(***************************************************************************)
(* A built filter whose provider is deterministic: embed resolves with a   *)
(* vector that is a function of the context string. The contexts have      *)
(* different fingerprints.                                                 *)
(***************************************************************************)
\* embed(text), read off the first character of the context string: vectors of
\* magnitude 2.0 and 1.0, and one of another dimension
EmbedContext(text) ==
    IF text = <<>> THEN <<0, 0, 0, 0>>
    ELSE CASE text[1] = 65 -> <<20, 0, 0, 0>>         \* 'A...'
           [] text[1] = 66 -> <<1, 9, 3, 3>>          \* 'B...'
           [] OTHER -> <<6, 8>>
DetInputs ==
    {StringInput(<<65, 97>>),                                             \* 'Aa'
     StringInput(<<66, 97>>),                                             \* 'Ba'
     MessagesInput(<<[role |-> "user", content |-> <<65, 97>>]>>)}        \* 'User: Aa'

InitDet ==
    /\ LIdle
    /\ SIdle
    /\ UIdle
    /\ config = [defaultOptions |-> undefined]
    /\ initialized = TRUE
    /\ LET tools == extractToolsWithMetadata(MergeCatalog, FALSE)
           embeddings == [i \in 1..Len(tools) |-> EmbedText(tools[i].description)]
           stored == StoreEmbeddings(tools, embeddings, 1, <<>>, <<>>)
       IN  /\ toolEmbeddings = stored.toolEmbeddings
           /\ toolMetadata = stored.toolMetadata
    /\ contextCache = <<>>
    /\ calls = [c \in CallIds |-> Idle]
    /\ resp = NoResp

NextDet ==
    \/ \E c \in CallIds, input \in DetInputs, options \in RequestOptions :
           FilterStart(c, input, options)
    \/ \E c \in CallIds, elapsed \in 0..MaxElapsed :
           /\ calls[c].pc = "embed"
           /\ FilterResume(c, EmbedContext(calls[c].contextString), elapsed)
    \/ ClearCache

SpecDet == InitDet /\ [][NextDet]_vars

(***************************************************************************)
(* A built filter whose calls run to their end: the provider call of the   *)
(* call in the first slot settles; that of the other call need not.        *)
(***************************************************************************)
\* embed of call c resolves with a vector
ProviderResolves(c) ==
    \E rawEmbedding \in MergeVectors, elapsed \in 0..MaxElapsed :
        FilterResume(c, rawEmbedding, elapsed)
\* embed of call c resolves or rejects
ProviderSettles(c) == FilterReject(c) \/ ProviderResolves(c)

\* two contexts: 'Aa' and 'User: Aa'
LiveInputs ==
    {StringInput(<<65, 97>>), MessagesInput(<<[role |-> "user", content |-> <<65, 97>>]>>)}

NextLive ==
    \/ \E c \in CallIds, input \in LiveInputs, options \in RequestOptions :
           FilterStart(c, input, options)
    \/ \E c \in CallIds : ProviderResolves(c)
    \/ \E c \in CallIds : FilterReject(c)
    \/ ClearCache

SpecLive == InitDet /\ [][NextLive]_vars /\ WF_vars(ProviderSettles(1))

(***************************************************************************)
(* Stand-alone calls of normalizeVector, dotProduct and truncateToTokens.  *)
(***************************************************************************)
MaxDim == 9
MaxTextLen == 9
MaxTokens == 2
\* the vectors normalizeVector is called with: of magnitude 0, 2.0, 1.0 and 0.5
NormalizeInputs ==
    {<<>>, <<0, 0, 0, 0>>, <<20, 0, 0, 0>>, <<18, 6, 6, 2>>, <<3, 9, 3, 1>>, <<6, 8>>, <<3, 4>>}
VecSeeds == {1, 2, 3}
\* a vector of len components between -3 and 3
Vec(len, seed) == [i \in 1..len |-> ((i * seed) % 7) - 3]
\* the texts of 'a' and ' ' up to MaxTextLen characters
Texts == UNION {[1..n -> {97, 32}] : n \in 0..MaxTextLen}

\* the calls: the function and its arguments
NormalizeCalls ==
    {[fn |-> "normalizeVector", vec |-> vec, inPlace |-> inPlace] :
        vec \in NormalizeInputs, inPlace \in BOOLEAN}
DotProductCalls ==
    {[fn |-> "dotProduct", a |-> Vec(la, sa), b |-> Vec(lb, sb)] :
        la \in 0..MaxDim, lb \in 0..MaxDim, sa \in VecSeeds, sb \in VecSeeds}
TruncateCalls ==
    {[fn |-> "truncateToTokens", text |-> text, maxTokens |-> maxTokens] :
        text \in Texts, maxTokens \in 0..MaxTokens}

InitUtil ==
    /\ LIdle
    /\ FIdle
    /\ SIdle
    /\ utilIn \in {Some(call) : call \in NormalizeCalls \cup DotProductCalls \cup TruncateCalls}
    /\ utilOut = undefined

\* normalizeVector(vec, inPlace) returns
NormalizeCall ==
    /\ utilOut = undefined
    /\ Unwrap(utilIn).fn = "normalizeVector"
    /\ utilOut' = Some(normalizeVectorBuffers(Unwrap(utilIn).vec, Unwrap(utilIn).inPlace))
    /\ UNCHANGED <<utilIn, lruVars, filterVars, sortVars>>

\* dotProduct(a, b) returns or throws
DotProductCall ==
    /\ utilOut = undefined
    /\ Unwrap(utilIn).fn = "dotProduct"
    /\ utilOut' = Some(dotProduct(Unwrap(utilIn).a, Unwrap(utilIn).b))
    /\ UNCHANGED <<utilIn, lruVars, filterVars, sortVars>>

\* truncateToTokens(text, maxTokens) returns
TruncateCall ==
    /\ utilOut = undefined
    /\ Unwrap(utilIn).fn = "truncateToTokens"
    /\ utilOut' = Some(truncateToTokens(Unwrap(utilIn).text, Unwrap(utilIn).maxTokens))
    /\ UNCHANGED <<utilIn, lruVars, filterVars, sortVars>>

NextUtil == NormalizeCall \/ DotProductCall \/ TruncateCall

SpecUtil == InitUtil /\ [][NextUtil]_vars

(***************************************************************************)
(* A stand-alone call of partialSort on a pool around the size from which  *)
(* it selects with the heap.                                               *)
(***************************************************************************)
MaxExtra == 1
MaxK == 4
PoolSizes == (HeapThreshold - 1)..(HeapThreshold + MaxExtra)
\* the number of different scores in a pool: 1 (all alike) to 503 (all different)
PoolSpreads == {1, 2, 3, 503}
PoolStrides == {1, 7}
\* the pool: item i scores (i * stride) modulo spread
Pool(size, spread, stride) == [i \in 1..size |-> [id |-> i, score |-> (i * stride) % spread]]

InitSort ==
    /\ LIdle
    /\ FIdle
    /\ UIdle
    /\ sortIn \in {Some([size |-> size, spread |-> spread, stride |-> stride, k |-> k]) :
                      size \in PoolSizes, spread \in PoolSpreads, stride \in PoolStrides,
                      k \in 0..MaxK}
    /\ sortOut = undefined

\* partialSort(items, k, scoreFunc) returns; the comparison sort of the same pool
\* is put next to what it returned
PartialSortCall ==
    /\ sortOut = undefined
    /\ LET in == Unwrap(sortIn)
           items == Pool(in.size, in.spread, in.stride)
       IN  sortOut' = Some([returned |-> partialSort(items, in.k),
                            bySort |-> IF in.k <= 0 THEN <<>> ELSE SortPolicy(items, in.k)])
    /\ UNCHANGED <<sortIn, lruVars, filterVars, utilVars>>

NextSort == PartialSortCall

SpecSort == InitSort /\ [][NextSort]_vars

(***************************************************************************)
(* Claims about the LRUCache.                                              *)
(***************************************************************************)
\* the number of keys of Touched accessed more recently than k
MoreRecent(k) == Cardinality({j \in Touched : lastTouch[j] > lastTouch[k]})

C1_SizeWithinPositiveCapacity ==
    lruMax >= 1 => LRUSize(lru) <= lruMax

\* C2: a set that evicts removes exactly the key whose last access (get hit or
\* set) is the oldest; so the keys still cached are the lruMax most recently
\* accessed ones: once more than lruMax distinct keys were inserted the
\* least-recently-touched one is gone and the more recent ones are present.
C2_EvictionFollowsRecency ==
    /\ (lruOut.op = "set" /\ lruOut.evicted # undefined) => lruOut.evicted = lruOut.oldest
    /\ \A k \in Touched : LRUHas(lru, k) <=> MoreRecent(k) < lruMax

\* C2, for a capacity of at least one.
C2_EvictionFollowsRecencyPositiveCapacity ==
    lruMax >= 1 => C2_EvictionFollowsRecency

\* a full cache has evicted the key read least recently, after a get promoted another
C2_WitnessEvictionAfterGet ==
    /\ lruMax >= 2
    /\ lruOut.op = "set"
    /\ lruOut.evicted # undefined
    /\ \E k \in MapKeys(lru) : k # Unwrap(lruOut.key) /\ k < Unwrap(lruOut.evicted)

(***************************************************************************)
(* The filter's claims.                                                    *)
(***************************************************************************)
\* a filter call has just returned its tools
FilterReturned == resp.op = "filter" /\ resp.status = "ok"
\* the returned tools, each as <<toolName, score>>
Returned == [i \in DOMAIN resp.tools |-> <<resp.tools[i].toolName, resp.tools[i].score>>]
\* the candidates named in alwaysInclude
ForcedCandidates ==
    {i \in DOMAIN resp.scores : resp.scores[i].toolName \in Range(resp.opts.alwaysInclude)}

\* C3: when a filter call has succeeded and the next step is a filter call with
\* the same input and options, that call returns at once without calling the
\* provider, with embeddingTime 0 and the same tools, order and scores.
C3_RepeatedFilterIsServedFromCache ==
    [][\A c \in CallIds :
          (FilterReturned /\ FilterStart(c, resp.input, resp.options))
          => /\ resp'.status = "ok"
             /\ resp'.providerCalled = FALSE
             /\ resp'.embeddingTime = 0
             /\ resp'.tools = resp.tools]_vars
C3_WitnessCacheHit ==
    /\ FilterReturned
    /\ resp.cacheHit
    /\ resp.tools # <<>>
    /\ LRUSize(contextCache) > 0

\* C4: a filter call on a filter whose initialize has not completed successfully
\* fails with Uninitialized, calls no provider and leaves the context cache and
\* the registry as they were.
C4_FilterBeforeInitializeFails ==
    [][\A c \in CallIds, input \in FilterInputs, options \in RequestOptions :
          (~initialized /\ FilterStart(c, input, options))
          => /\ resp'.status = "error"
             /\ resp'.error = "Uninitialized"
             /\ resp'.providerCalled = FALSE
             /\ UNCHANGED <<contextCache, toolEmbeddings, toolMetadata, calls>>]_vars
\* the call fails on a filter whose failed initialize left tools in the registry
C4_WitnessUninitialized ==
    /\ resp.op = "filter"
    /\ resp.error = "Uninitialized"
    /\ ~initialized
    /\ MapSize(toolEmbeddings) > 0

\* C5: no returned tool is named in exclude, also when alwaysInclude names it.
C5_ExcludedNeverReturned ==
    FilterReturned =>
        \A i \in DOMAIN resp.tools : resp.tools[i].toolName \notin Range(resp.opts.exclude)
C5_WitnessExcludedAndForced ==
    /\ FilterReturned
    /\ resp.tools # <<>>
    /\ \E i \in DOMAIN toolMetadata :
          /\ toolMetadata[i].value.tool.name \in Range(resp.opts.exclude)
          /\ toolMetadata[i].value.tool.name \in Range(resp.opts.alwaysInclude)

\* C6: every registry tool named in alwaysInclude and not in exclude is returned.
C6_AlwaysIncludedReturned ==
    FilterReturned =>
        \A i \in DOMAIN toolMetadata :
            LET metadata == toolMetadata[i].value
            IN  (/\ metadata.tool.name \in Range(resp.opts.alwaysInclude)
                 /\ metadata.tool.name \notin Range(resp.opts.exclude))
                => \E j \in DOMAIN resp.tools :
                      /\ resp.tools[j].serverId = metadata.serverId
                      /\ resp.tools[j].toolName = metadata.tool.name
\* a forced tool below minScore is returned although topK is below the number forced
C6_WitnessForcedBelowThreshold ==
    /\ FilterReturned
    /\ resp.opts.topK < Cardinality(ForcedCandidates)
    /\ \E j \in DOMAIN resp.tools :
          /\ resp.tools[j].toolName \in Range(resp.opts.alwaysInclude)
          /\ resp.tools[j].score < resp.opts.minScore

\* C7 as stated: at most topK tools plus the forced candidates are returned, and
\* at most topK when alwaysInclude is empty.
C7_AtMostTopKPlusForced ==
    FilterReturned =>
        /\ Len(resp.tools) <= resp.opts.topK + Cardinality(ForcedCandidates)
        /\ resp.opts.alwaysInclude = <<>> => Len(resp.tools) <= resp.opts.topK
\* C7 as amended: at most max(topK, 0) tools plus the forced candidates are
\* returned, and at most max(topK, 0) when alwaysInclude is empty.
C7_AtMostTopKFromZeroPlusForced ==
    FilterReturned =>
        LET topK == IF resp.opts.topK > 0 THEN resp.opts.topK ELSE 0
        IN  /\ Len(resp.tools) <= topK + Cardinality(ForcedCandidates)
            /\ resp.opts.alwaysInclude = <<>> => Len(resp.tools) <= topK
\* topK cuts the answer short, a forced candidate having taken one of its slots
C7_WitnessCutAtTopK ==
    /\ FilterReturned
    /\ resp.opts.topK > 0
    /\ Len(resp.tools) = resp.opts.topK
    /\ Len(resp.scores) > Len(resp.tools)
    /\ ForcedCandidates # {}

\* C8: every returned tool that alwaysInclude does not name scores at least minScore.
C8_ReturnedReachMinScore ==
    FilterReturned =>
        \A j \in DOMAIN resp.tools :
            resp.tools[j].toolName \notin Range(resp.opts.alwaysInclude)
            => resp.tools[j].score >= resp.opts.minScore
\* a candidate below minScore was dropped and another one returned
C8_WitnessDroppedBelowThreshold ==
    /\ FilterReturned
    /\ \E i \in DOMAIN resp.scores :
          /\ resp.scores[i].toolName \notin Range(resp.opts.alwaysInclude)
          /\ resp.scores[i].score < resp.opts.minScore
    /\ \E j \in DOMAIN resp.tools :
          resp.tools[j].toolName \notin Range(resp.opts.alwaysInclude)

\* the scores of the scenario: email_search 0.9, calendar_list 0.3, web_search 0.1
ScenarioScores == {<<email_search, 90>>, <<calendar_list, 30>>, <<web_search, 10>>}

\* the registry of three tools with these scores, asked with the given options
\* and no exclusions
Scenario(topK, alwaysInclude) ==
    /\ FilterReturned
    /\ MapSize(toolEmbeddings) = 3
    /\ Len(resp.scores) = 3
    /\ {<<resp.scores[i].toolName, resp.scores[i].score>> : i \in DOMAIN resp.scores}
           = ScenarioScores
    /\ resp.opts.topK = topK
    /\ resp.opts.minScore = 20
    /\ resp.opts.alwaysInclude = alwaysInclude
    /\ resp.opts.exclude = <<>>

\* C9 as stated: with alwaysInclude = [web_search], topK = 1 and minScore = 0.2 the
\* output is [web_search(0.1), email_search(0.9)].
C9_ForcedThenBestEligible ==
    Scenario(1, <<web_search>>) => Returned = <<<<web_search, 10>>, <<email_search, 90>>>>
\* C9 as amended: with alwaysInclude = [web_search], topK = 1 and minScore = 0.2 the
\* output is [web_search(0.1)] alone, the forced entry taking the one slot of topK.
C9_ForcedTakesTheOnlySlot ==
    Scenario(1, <<web_search>>) => Returned = <<<<web_search, 10>>>>
C9_WitnessScenario == Scenario(1, <<web_search>>) /\ Len(resp.tools) = 1

\* C10: with empty alwaysInclude and exclude, topK = 2 and minScore = 0.2 the
\* output is [email_search(0.9), calendar_list(0.3)] in that order.
C10_TopTwoAboveThreshold ==
    Scenario(2, <<>>) => Returned = <<<<email_search, 90>>, <<calendar_list, 30>>>>
\* the scenario on the registry that holds calendar_list before email_search
C10_WitnessScenario ==
    /\ Scenario(2, <<>>)
    /\ resp.scores[2].toolName = calendar_list
    /\ resp.scores[3].toolName = email_search

(***************************************************************************)
(* Claims about the registry build.                                        *)
(***************************************************************************)
\* the (serverId, toolName) pairs of a catalog's entries, in catalog order
CatalogPairs(servers) ==
    LET tools == extractToolsWithMetadata(servers, FALSE)
    IN  [i \in DOMAIN tools |-> <<tools[i].serverId, tools[i].tool.name>>]
\* the index of the last entry of the catalog that carries the pair of entry i
LastEntry(servers, i) ==
    LET pairs == CatalogPairs(servers)
    IN  CHOOSE j \in DOMAIN pairs :
            /\ pairs[j] = pairs[i]
            /\ \A k \in DOMAIN pairs : pairs[k] = pairs[i] => k <= j
\* the registry holds, for every entry of the catalog, what the last entry with
\* the same pair brought: its metadata and its normalized embedding
LaterEntryStored(servers, embeddingsMap, metadataMap) ==
    LET tools == extractToolsWithMetadata(servers, FALSE)
    IN  \A i \in DOMAIN tools :
            LET toolKey == getToolKey(tools[i].serverId, tools[i].tool.name)
                later == tools[LastEntry(servers, i)]
            IN  /\ MapGet(metadataMap, toolKey) = Some(later)
                /\ MapGet(embeddingsMap, toolKey)
                       = Some(normalizeVector(EmbedText(later.description), FALSE))

\* C11: a successful initialize of a new filter leaves toolCount at the number of
\* distinct (serverId, toolName) pairs of the catalog (N for N distinct pairs,
\* N - 1 when one pair is listed twice), each pair holding the embedding and the
\* metadata of its later entry.
C11_ToolCountIsNumberOfPairs ==
    [][(toolEmbeddings = <<>> /\ InitializeResume(1) /\ resp'.status = "ok")
       => /\ MapSize(toolEmbeddings') = Cardinality(Range(CatalogPairs(resp'.servers)))
          /\ LaterEntryStored(resp'.servers, toolEmbeddings', toolMetadata')]_vars

\* C11, for the catalogs none of whose server ids and tool names holds '::'
C11_ToolCountWithoutSeparator ==
    [][(/\ toolEmbeddings = <<>>
        /\ InitializeResume(1)
        /\ resp'.status = "ok"
        /\ \A i \in DOMAIN resp'.servers : resp'.servers[i].id \notin {ID_a, ID_a_b})
       => /\ MapSize(toolEmbeddings') = Cardinality(Range(CatalogPairs(resp'.servers)))
          /\ LaterEntryStored(resp'.servers, toolEmbeddings', toolMetadata')]_vars

(***************************************************************************)
(* Claims about partialSort.                                               *)
(***************************************************************************)
\* C12: what partialSort returns, with the heap from HeapThreshold items on, is
\* the ranked sequence the comparison sort gives for the same pool and k, also
\* when several items score alike.
C12_HeapReturnsWhatSortReturns ==
    sortOut # undefined => Unwrap(sortOut).returned = Unwrap(sortOut).bySort

\* C12, for the pools whose items all score differently
C12_HeapReturnsWhatSortReturnsWithoutTies ==
    (sortOut # undefined /\ Unwrap(sortIn).spread > Unwrap(sortIn).size)
    => Unwrap(sortOut).returned = Unwrap(sortOut).bySort

(***************************************************************************)
(* Claims about the filter's calls of the embedding provider.              *)
(***************************************************************************)
\* the step is call c of filter missing the cache and calling embed
MissesCache(c) == calls[c] = Idle /\ calls'[c] # Idle /\ calls'[c].pc = "embed"

\* C13: a filter call that misses the cache calls the provider once and leaves
\* the cache as it was (keys, values and their order); when the provider fails,
\* the call ends with the provider's error, calls the provider no second time
\* and leaves the cache as it was. A call whose provider never answers has
\* taken the first of the two steps only.
C13_ProviderFailureLeavesCache ==
    [][\A c \in CallIds :
          /\ MissesCache(c) => (resp'.providerCalled /\ contextCache' = contextCache)
          /\ FilterReject(c) =>
                 /\ resp'.op = "filter" /\ resp'.call = c
                 /\ resp'.status = "error" /\ resp'.error = "ProviderFailure"
                 /\ ~resp'.providerCalled
                 /\ calls'[c] = Idle
                 /\ contextCache' = contextCache]_vars

\* the provider failed a filter call while the cache held another context
C13_WitnessFailureWithFilledCache ==
    /\ resp.op = "filter" /\ resp.error = "ProviderFailure"
    /\ LRUSize(contextCache) > 0

\* the context string of the filter call that resp answers
ContextOf(r) == buildContextString(r.input, r.opts.contextMessages, r.opts.maxContextTokens)

\* resp answers a filter call d that missed the cache and whose embed resolved,
\* while call c, started before d ended, waits for embed with the same context
Overlapping(c) ==
    /\ resp.op = "filter" /\ resp.call # c /\ ~resp.cacheHit
    /\ resp.status # "pending" /\ resp.error \in {"", "DimensionMismatch"}
    /\ calls[c].pc = "embed"
    /\ calls[c].contextString = ContextOf(resp)

EntriesFor(cache, key) == Cardinality({i \in DOMAIN cache : cache[i].key = key})

\* the cache after both calls, and what the second call returned against the first
SameOutcome(c) ==
    /\ resp'.status = resp.status
    /\ resp'.tools = resp.tools
    /\ resp'.scores = resp.scores
    /\ EntriesFor(contextCache', calls[c].contextHash) = 1
    /\ LRUSize(contextCache') <= MAX_CACHE_SIZE

C15_RegistryReadOnlyAfterBuild ==
    [][(initialized /\ resp'.op \in {"filter", "clearCache", "getStats"})
       => UNCHANGED <<toolEmbeddings, toolMetadata, initialized>>]_vars

\* getStats reports a built registry after a filter call has filled the cache
C15_WitnessStatsAfterFilter ==
    /\ initialized /\ resp.op = "getStats"
    /\ Unwrap(resp.stats).initialized
    /\ Unwrap(resp.stats).toolCount = MapSize(toolEmbeddings)
    /\ Unwrap(resp.stats).toolCount > 0
    /\ Unwrap(resp.stats).cacheSize > 0

\* C20: clearCache empties the context cache and changes nothing else; getStats
\* right after it reports cacheSize 0 with toolCount and initialized as they
\* were, and the filter call right after it misses the cache and calls the
\* provider, whatever its context.
C20_ClearCacheEmptiesCacheOnly ==
    [][/\ ClearCache =>
              /\ LRUSize(contextCache') = 0
              /\ UNCHANGED <<toolEmbeddings, toolMetadata, initialized, config, calls>>
       /\ (resp.op = "clearCache" /\ GetStats) =>
              /\ Unwrap(resp'.stats).cacheSize = 0
              /\ Unwrap(resp'.stats).toolCount = MapSize(toolEmbeddings)
              /\ Unwrap(resp'.stats).initialized = initialized
       /\ \A c \in CallIds, input \in FilterInputs, options \in RequestOptions :
              (resp.op = "clearCache" /\ initialized /\ FilterStart(c, input, options))
              => (resp'.status = "pending" /\ resp'.providerCalled /\ ~resp'.cacheHit)]_vars

\* clearCache has returned on a built registry
C20_WitnessClearedBuiltFilter ==
    /\ resp.op = "clearCache"
    /\ initialized /\ MapSize(toolEmbeddings) > 0
    /\ LRUSize(contextCache) = 0

(***************************************************************************)
(* Claims about rebuilding and failing builds.                             *)
(***************************************************************************)
\* the tool keys of a catalog
CatalogKeys(servers) ==
    {getToolKey(t.serverId, t.tool.name) : t \in Range(extractToolsWithMetadata(servers, FALSE))}

\* C16: an initialize that succeeds on a filter already initialized leaves the
\* registry with the tools of its own catalog and no other: the tool keys are
\* the catalog's keys, so that toolCount is their number and filter has no tool
\* of the earlier catalog alone to return.
C16_RebuildReplacesToolSet ==
    [][(initialized /\ InitializeResume(1) /\ resp'.status = "ok")
       => /\ MapKeys(toolEmbeddings') = CatalogKeys(resp'.servers)
          /\ MapKeys(toolMetadata') = CatalogKeys(resp'.servers)
          /\ MapSize(toolEmbeddings') = Cardinality(CatalogKeys(resp'.servers))]_vars

\* C17: initialized becomes true only in a step that has stored every tool of the
\* catalog; an initialize that fails on a filter not yet initialized leaves it
\* uninitialized, with the registry it had before (so toolCount is what it was),
\* and a filter call that follows fails with Uninitialized.
C17_FailedBuildLeavesNothing ==
    [][/\ (~initialized /\ initialized') =>
              /\ resp'.op = "initialize" /\ resp'.status = "ok"
              /\ CatalogKeys(resp'.servers) \subseteq MapKeys(toolEmbeddings')
       /\ (~initialized /\ (InitializeResume(1) \/ InitializeReject(1))
           /\ resp'.status = "error") =>
              /\ ~initialized'
              /\ toolEmbeddings' = toolEmbeddings
              /\ toolMetadata' = toolMetadata
       /\ \A input \in BuiltInputs :
              (~initialized /\ FilterStart(1, input, undefined)) =>
                  (resp'.status = "error" /\ resp'.error = "Uninitialized")]_vars

\* the catalog lists a tool that has no description
MissingDescription(servers) ==
    \E t \in Range(extractToolsWithMetadata(servers, FALSE)) : t.tool.description = undefined

\* C18: an initialize whose catalog lists a tool without description, and whose
\* provider answers with every vector asked for, fails with InvalidInput, and
\* the registry holds none of the catalog's tools that lack the description.
C18_MissingDescriptionFailsBuild ==
    (/\ resp.op = "initialize" /\ resp.status # "pending"
     /\ resp.error \notin {"ProviderFailure", "TypeError"}
     /\ MissingDescription(resp.servers))
    => /\ resp.status = "error" /\ resp.error = "InvalidInput"
       /\ \A t \in Range(extractToolsWithMetadata(resp.servers, FALSE)) :
              t.tool.description = undefined
              => ~MapHas(toolEmbeddings, getToolKey(t.serverId, t.tool.name))

(***************************************************************************)
(* Claims about the embeddings' dimensions.                                *)
(***************************************************************************)
\* resp answers a filter call that got its context embedding
Scoring ==
    /\ resp.op = "filter" /\ resp.status # "pending"
    /\ resp.error \notin {"Uninitialized", "ProviderFailure"}
\* the context embedding of that call: what the cache holds for its context
UsedEmbedding == Unwrap(MapGet(contextCache, hashString(ContextOf(resp))))
\* the registry's embeddings of another length than the call's context embedding:
\* their tool names
OtherLength ==
    {Unwrap(MapGet(toolMetadata, toolEmbeddings[i].key)).tool.name :
        i \in {j \in DOMAIN toolEmbeddings :
                  Len(toolEmbeddings[j].value) # Len(UsedEmbedding)}}
FailsWithDimensionMismatch ==
    resp.status = "error" /\ resp.error = "DimensionMismatch" /\ resp.tools = <<>>

\* C19: a filter call whose context embedding has another length than the
\* registry's embeddings fails with DimensionMismatch and returns no tools,
\* whatever the registry and the options.
C19_OtherLengthFails ==
    (Scoring /\ OtherLength # {}) => FailsWithDimensionMismatch

\* C19, for a registry embedding of another length whose tool is not excluded
C19_OtherLengthOfScoredToolFails ==
    (Scoring /\ OtherLength \ Range(resp.opts.exclude) # {}) => FailsWithDimensionMismatch

\* a call that excludes one tool fails on the length of another, the context
\* embedding coming from the cache
C19_WitnessMismatchOnCacheHit ==
    /\ Scoring /\ resp.cacheHit
    /\ resp.opts.exclude # <<>>
    /\ OtherLength \ Range(resp.opts.exclude) # {}
    /\ FailsWithDimensionMismatch

(***************************************************************************)
(* Claims about the options a filter call uses.                            *)
(***************************************************************************)
OptionFields ==
    {"topK", "minScore", "contextMessages", "alwaysInclude", "exclude", "maxContextTokens"}
BuiltInDefaults ==
    [topK |-> 20, minScore |-> 30, contextMessages |-> 3, alwaysInclude |-> <<>>,
     exclude |-> <<>>, maxContextTokens |-> 500]
\* field f was given in an options object that may be missing
Given(options, f) == options # undefined /\ Unwrap(options)[f] # undefined
\* the value field f is to have: the request's, else the configured default's,
\* else the built-in default
Precedence(options, f) ==
    IF Given(options, f) THEN Unwrap(Unwrap(options)[f])
    ELSE IF Given(config.defaultOptions, f) THEN Unwrap(Unwrap(config.defaultOptions)[f])
    ELSE BuiltInDefaults[f]
\* opts holds those values, and a context string built with them
UsesPrecedence(options, opts, input, contextString) ==
    /\ \A f \in OptionFields : opts[f] = Precedence(options, f)
    /\ contextString = buildContextString(input, Precedence(options, "contextMessages"),
                                          Precedence(options, "maxContextTokens"))

\* C21: the options a filter call works with are, field by field, the request's
\* value if given, else the configured defaultOptions value if given, else the
\* built-in default; a given 0 or empty list is used as given. The call's
\* context string is built, and its tools are selected, with those values.
C21_OptionsFollowPrecedence ==
    /\ calls[1].pc = "embed" =>
           UsesPrecedence(calls[1].options, calls[1].opts, calls[1].input,
                          calls[1].contextString)
    /\ (resp.op = "filter" /\ resp.status = "ok") =>
           /\ UsesPrecedence(resp.options, resp.opts, resp.input, ContextOf(resp))
           /\ resp.tools = selectTools(resp.scores,
                                       [f \in OptionFields |-> Precedence(resp.options, f)])

\* a call that gave topK = 0 alone, on a filter configured with minScore = 0
\* alone, returned: topK is 0, minScore 0, and contextMessages the built-in 3
C21_WitnessZeroGiven ==
    /\ resp.op = "filter" /\ resp.status = "ok"
    /\ resp.options = Some([NoOptions EXCEPT !.topK = Some(0)])
    /\ config.defaultOptions = Some([NoOptions EXCEPT !.minScore = Some(0)])
    /\ resp.opts.topK = 0 /\ resp.opts.minScore = 0 /\ resp.opts.contextMessages = 3
    /\ resp.tools = <<>>

(***************************************************************************)
(* Claims about the stored vectors.                                        *)
(***************************************************************************)
\* a vector of length 1.0, its components being tenths
UnitLength(vec) == SumSquares(vec) = 100
StoredVectors ==
    {toolEmbeddings[i].value : i \in DOMAIN toolEmbeddings}
    \cup {contextCache[i].value : i \in DOMAIN contextCache}

\* C22: once initialize has succeeded, every embedding in the registry and
\* every embedding in the context cache has length 1, whatever the provider
\* returned, the all-zero vector included.
C22_StoredVectorsUnitLength ==
    initialized => \A vec \in StoredVectors : UnitLength(vec)

\* C22, but for the all-zero vectors, which are stored as they are
C22_StoredVectorsUnitLengthOrZero ==
    initialized => \A vec \in StoredVectors : UnitLength(vec) \/ SumSquares(vec) = 0

(***************************************************************************)
(* Claims about LRUCache.set.                                              *)
(***************************************************************************)
\* what a step set(key, value) is to do to the cache lru of capacity lruMax
SetReplacesOrEvictsOne(key, value) ==
    /\ LRUGetValue(lru', key) = Some(value)
    /\ lru'[Len(lru')].key = key
    /\ IF LRUHas(lru, key)
       THEN /\ MapKeys(lru') = MapKeys(lru)
            /\ LRUSize(lru') = LRUSize(lru)
       ELSE IF LRUSize(lru) >= lruMax
       THEN /\ LeastRecentlyTouched(MapKeys(lru)) # undefined
            /\ MapKeys(lru') =
                   (MapKeys(lru) \ {Unwrap(LeastRecentlyTouched(MapKeys(lru)))}) \cup {key}
            /\ LRUSize(lru') = LRUSize(lru)
       ELSE /\ MapKeys(lru') = MapKeys(lru) \cup {key}
            /\ LRUSize(lru') = LRUSize(lru) + 1
    /\ \A k \in MapKeys(lru') \ {key} : LRUGetValue(lru', k) = LRUGetValue(lru, k)

\* C24: set on a key that is present replaces its value, makes it the most
\* recently used key, evicts nothing and leaves the size as it is, also when the
\* cache is full; set on an absent key evicts one entry, the least recently
\* used, when the cache is full, and nothing otherwise.
C24_SetReplacesOrEvictsOne ==
    [][\A key \in LKeys, value \in LValues :
          LSet(key, value) => SetReplacesOrEvictsOne(key, value)]_vars

\* C24, for a capacity of at least one.
C24_SetReplacesOrEvictsOnePositiveCapacity ==
    [][\A key \in LKeys, value \in LValues :
          (lruMax >= 1 /\ LSet(key, value)) => SetReplacesOrEvictsOne(key, value)]_vars

(***************************************************************************)
(* Claims about the number and the order of the returned tools.            *)
(***************************************************************************)
\* the candidates that alwaysInclude does not name and that reach minScore
EligibleCandidates ==
    {i \in DOMAIN resp.scores :
        /\ resp.scores[i].toolName \notin Range(resp.opts.alwaysInclude)
        /\ resp.scores[i].score >= resp.opts.minScore}
\* the returned tools that alwaysInclude does not name
ReturnedOthers ==
    {j \in DOMAIN resp.tools : resp.tools[j].toolName \notin Range(resp.opts.alwaysInclude)}
Min(a, b) == IF a <= b THEN a ELSE b
Max(a, b) == IF a >= b THEN a ELSE b

\* C25: the number of returned tools that alwaysInclude does not name is
\* min(max(0, topK - F), E), F being the number of candidates alwaysInclude
\* names and E the number of other candidates that reach minScore; with
\* topK <= 0 or F >= topK only the forced tools are returned.
C25_OthersFillRemainingSlots ==
    FilterReturned =>
        LET F == Cardinality(ForcedCandidates)
            E == Cardinality(EligibleCandidates)
        IN  /\ Cardinality(ReturnedOthers) = Min(Max(0, resp.opts.topK - F), E)
            /\ Len(resp.tools) = F + Cardinality(ReturnedOthers)
            /\ (resp.opts.topK <= 0 \/ F >= resp.opts.topK) => ReturnedOthers = {}

\* one forced candidate, topK = 2 and two eligible candidates: one of them returned
C25_WitnessOneSlotLeft ==
    /\ FilterReturned
    /\ Cardinality(ForcedCandidates) = 1
    /\ resp.opts.topK = 2
    /\ Cardinality(EligibleCandidates) = 2
    /\ Cardinality(ReturnedOthers) = 1

(***************************************************************************)
(* Claims about the tools partialSort selects.                             *)
(***************************************************************************)
\* the pool partialSort was called with, and the ids of the items it returned
SortedPool == Pool(Unwrap(sortIn).size, Unwrap(sortIn).spread, Unwrap(sortIn).stride)
ReturnedIds == {Unwrap(sortOut).returned[j].id : j \in DOMAIN Unwrap(sortOut).returned}

\* C26: partialSort returns the highest-scoring items, below the size from which
\* it uses the heap and from it on: it returns min(k, size) different items of
\* the pool, and no item left out scores more than a returned one.
C26_NoLeftOutItemScoresMore ==
    sortOut # undefined =>
        LET returned == Unwrap(sortOut).returned
        IN  /\ Len(returned) = Min(Max(0, Unwrap(sortIn).k), Unwrap(sortIn).size)
            /\ Cardinality(ReturnedIds) = Len(returned)
            /\ \A j \in DOMAIN returned : returned[j] = SortedPool[returned[j].id]
            /\ \A i \in DOMAIN SortedPool :
                   i \notin ReturnedIds =>
                       \A j \in DOMAIN returned : SortedPool[i].score <= returned[j].score

\* the heap has selected among 500 items or more of three different scores, a
\* higher score coming after k items of lower scores
C26_WitnessHeapReplaced ==
    /\ sortOut # undefined
    /\ Unwrap(sortIn).size >= HeapThreshold
    /\ Unwrap(sortIn).spread = 3
    /\ Unwrap(sortIn).k = 2
    /\ \A j \in DOMAIN Unwrap(sortOut).returned : Unwrap(sortOut).returned[j].score = 2

\* C28: partialSort is stable on ties for every pool size: of two items of
\* equal score the one that comes first in the pool is returned in preference
\* to the other, and is listed before it when both are returned.
C28_StableOnTies ==
    sortOut # undefined =>
        LET returned == Unwrap(sortOut).returned
        IN  /\ \A i, j \in DOMAIN returned :
                   (i < j /\ returned[i].score = returned[j].score)
                   => returned[i].id < returned[j].id
            /\ \A j \in DOMAIN returned : \A i \in DOMAIN SortedPool :
                   (i \notin ReturnedIds /\ SortedPool[i].score = returned[j].score)
                   => returned[j].id < i

\* C28, for the pools below the size from which partialSort uses the heap
C28_StableOnTiesBelowThreshold ==
    Unwrap(sortIn).size < HeapThreshold => C28_StableOnTies

\* the place of a returned tool in the registry, counted in the iteration order
\* of toolEmbeddings
RegistryPlace(scored) ==
    CHOOSE i \in DOMAIN toolEmbeddings :
        toolEmbeddings[i].key = getToolKey(scored.serverId, scored.toolName)

\* C27: the tools alwaysInclude names come first in a response, in the order of
\* the registry; the others follow them in non-increasing order of score.
C27_ForcedFirstThenByScore ==
    FilterReturned =>
        \A i, j \in DOMAIN resp.tools :
            i < j =>
                LET first == resp.tools[i]
                    second == resp.tools[j]
                    firstForced == first.toolName \in Range(resp.opts.alwaysInclude)
                    secondForced == second.toolName \in Range(resp.opts.alwaysInclude)
                IN  /\ secondForced => firstForced
                    /\ (firstForced /\ secondForced)
                       => RegistryPlace(first) < RegistryPlace(second)
                    /\ (~firstForced /\ ~secondForced) => first.score >= second.score

\* two forced tools are returned in the registry's order, which is not the order
\* alwaysInclude names them in, ahead of a tool that scores more than one of them
C27_WitnessForcedInRegistryOrder ==
    /\ FilterReturned
    /\ Len(resp.tools) = 3
    /\ resp.opts.alwaysInclude = <<web_search, email_search>>
    /\ resp.tools[1].toolName = email_search
    /\ resp.tools[2].toolName = web_search
    /\ resp.tools[3].score > resp.tools[2].score

(***************************************************************************)
(* Claims about the metrics of a response.                                 *)
(***************************************************************************)
\* the registry entries whose tool name exclude does not hold
NotExcluded ==
    {i \in DOMAIN toolMetadata :
        toolMetadata[i].value.tool.name \notin Range(resp.opts.exclude)}

\* C29: toolsEvaluated is the number of registry entries scored for the request,
\* those whose tool name is not in exclude.
C29_ToolsEvaluatedCountsScored ==
    FilterReturned =>
        /\ Len(resp.scores) = Cardinality(NotExcluded)
        /\ resp.toolsEvaluated = Cardinality(NotExcluded)

\* C29, with the number the code reports: the size of the registry
C29_ToolsEvaluatedIsRegistrySize ==
    FilterReturned =>
        /\ Len(resp.scores) = Cardinality(NotExcluded)
        /\ resp.toolsEvaluated = MapSize(toolEmbeddings)

LastMessages(messages, n) ==
    LET others == NonSystem(messages)
    IN  SubSeq(others, Max(1, Len(others) - n + 1), Len(others))
RECURSIVE Rendered(_)
\* the messages as 'User: ...' and 'Assistant: ...', a blank line between them
Rendered(messages) ==
    IF messages = <<>> THEN <<>>
    ELSE (IF Head(messages).role = "user" THEN STR_User ELSE STR_Assistant)
         \o STR_ColonSpace \o Head(messages).content
         \o (IF Len(messages) = 1 THEN <<>> ELSE STR_BlankLine \o Rendered(Tail(messages)))
\* the context string of the call in flight is built from its last n messages
ContextFromLast(n) ==
    calls[1].contextString =
        truncateToTokens(Rendered(LastMessages(calls[1].input.messages, n)),
                         calls[1].opts.maxContextTokens)

\* C23: the context string of a call with a message list is built from the last
\* contextMessages messages that are not system messages, in their order (from
\* all of them when they are fewer), for every contextMessages >= 0.
C23_ContextFromLastMessages ==
    (calls[1].pc = "embed" /\ ~calls[1].input.isString) =>
        ContextFromLast(calls[1].opts.contextMessages)

\* C23, for every contextMessages >= 1; with contextMessages = 0 the string is
\* built from all the messages that are not system messages
C23_ContextFromLastMessagesFromOne ==
    (calls[1].pc = "embed" /\ ~calls[1].input.isString) =>
        IF calls[1].opts.contextMessages >= 1
        THEN ContextFromLast(calls[1].opts.contextMessages)
        ELSE ContextFromLast(Len(calls[1].input.messages))

(***************************************************************************)
(* Claims about the cache key.                                             *)
(***************************************************************************)
\* resp answers a filter call that missed the cache and whose embed resolved, and
\* the cache holds one entry: the embedding cached for that call's context
JustCached ==
    /\ resp.op = "filter" /\ ~resp.cacheHit
    /\ resp.status # "pending" /\ resp.error \in {"", "DimensionMismatch"}
    /\ LRUSize(contextCache) = 1
\* the step is a filter call that is served from the cache
HitNext == resp'.op = "filter" /\ resp'.cacheHit

AloneOnEmptyCache(input, options) ==
    LET opts == mergeOptions(options, config.defaultOptions)
        contextString == buildContextString(input, opts.contextMessages, opts.maxContextTokens)
    IN  FilterResult(0, input, options, opts,
                     normalizeVector(EmbedContext(contextString), TRUE), 0, FALSE)
\* the same response, timings and the cache's part aside
SameResponse(r, s) ==
    /\ r.status = s.status /\ r.error = s.error
    /\ r.tools = s.tools /\ r.scores = s.scores
    /\ r.toolsEvaluated = s.toolsEvaluated

\* C32: with a deterministic provider and different cache keys for different
\* contexts, a filter call returns, under every interleaving with other filter
\* and clearCache calls and with every cache contents they left, the response
\* (timings aside) that it returns when run alone on an empty cache.
C32_ResponseAsWhenRunAlone ==
    (resp.op = "filter" /\ resp.status # "pending") =>
        SameResponse(resp, AloneOnEmptyCache(resp.input, resp.options))

\* a call was served from the cache and returned tools while another call, on
\* another context, waits for the provider
C32_WitnessHitBesideCallInFlight ==
    /\ resp.op = "filter" /\ resp.cacheHit /\ resp.status = "ok" /\ resp.tools # <<>>
    /\ \E c \in CallIds : /\ calls[c].pc = "embed"
                          /\ calls[c].contextString # ContextOf(resp)

(***************************************************************************)
(* Claims about progress.                                                  *)
(***************************************************************************)
\* call c has returned a response or thrown
Settled(c) == resp.op = "filter" /\ resp.call = c /\ resp.status \in {"ok", "error"}

\* C33: a filter call on an initialized filter whose provider call settles
\* eventually returns a response or throws, whether or not the provider call of
\* another call in flight ever settles; the cache is read and written in steps
\* of the calls, none of which spans a provider call.
C33_FilterCallEnds == (calls[1] # Idle) ~> Settled(1)

\* the first call waits for the provider while the second call, started after
\* it, has missed the cache, stored its embedding and returned tools
C33_WitnessOvertaken ==
    /\ calls[1].pc = "embed"
    /\ resp.op = "filter" /\ resp.call = 2 /\ resp.status = "ok" /\ ~resp.cacheHit
    /\ resp.tools # <<>>
    /\ MapHas(contextCache, hashString(ContextOf(resp)))

(***************************************************************************)
(* Claims about the cache's reads.                                         *)
(***************************************************************************)
\* C34: has(key), and a get(key) that misses, leave the cache as it is: the same
\* keys, the same values and the same recency order, so the next set evicts the
\* key it would have evicted before.
C34_HasAndMissLeaveCache ==
    [][\A key \in LKeys :
          (LHas(key) \/ (~MapHas(lru, key) /\ LGet(key))) =>
              /\ lru' = lru
              /\ \A k \in LKeys, value \in LValues :
                     LRUSet(lru', lruMax, k, value) = LRUSet(lru, lruMax, k, value)]_vars

\* has(key) found the oldest key of a full cache of two, and it is still the oldest
C34_WitnessHasOnOldest ==
    /\ lruOut.op = "has" /\ lruOut.result = Some(TRUE)
    /\ lruMax = 2 /\ LRUSize(lru) = 2
    /\ lruOut.key = MapFirstKey(lru)

(***************************************************************************)
(* Claims about the entries of a response.                                 *)
(***************************************************************************)
\* the entry is the registry's tool of its server id and tool name
InRegistry(scored) ==
    LET toolKey == getToolKey(scored.serverId, scored.toolName)
    IN  /\ MapHas(toolEmbeddings, toolKey)
        /\ MapHas(toolMetadata, toolKey)
        /\ Unwrap(MapGet(toolMetadata, toolKey)).serverId = scored.serverId
        /\ Unwrap(MapGet(toolMetadata, toolKey)).tool = scored.tool
        /\ scored.tool.name = scored.toolName

\* C35: every entry of a filter response is a tool of the registry, and no
\* (serverId, toolName) is returned twice, also when several servers have a tool
\* of the same name and when the name is listed in alwaysInclude.
C35_EntriesAreDistinctRegistryTools ==
    FilterReturned =>
        /\ \A i \in DOMAIN resp.tools : InRegistry(resp.tools[i])
        /\ \A i, j \in DOMAIN resp.tools :
               (/\ resp.tools[i].serverId = resp.tools[j].serverId
                /\ resp.tools[i].toolName = resp.tools[j].toolName) => i = j

\* two servers' tools of one name were returned, the name listed in alwaysInclude,
\* next to a tool of another name
C35_WitnessSameNameTwice ==
    /\ FilterReturned
    /\ \E i, j \in DOMAIN resp.tools :
           /\ i # j
           /\ resp.tools[i].toolName = resp.tools[j].toolName
           /\ resp.tools[i].toolName \in Range(resp.opts.alwaysInclude)
    /\ Len(resp.tools) = 3

(***************************************************************************)
(* Claims about the vector and string utilities.                           *)
(***************************************************************************)
\* a stand-alone call of fn has returned or thrown
Called(fn) == utilOut # undefined /\ Unwrap(utilIn).fn = fn

\* C36: normalizeVector with inPlace = true writes the result into the input
\* buffer and returns that buffer; with inPlace = false it returns a new buffer
\* and leaves every component of the input as it was; a vector of magnitude zero
\* is returned itself, all components as they were, in both modes.
C36_NormalizeBuffers ==
    Called("normalizeVector") =>
        LET in == Unwrap(utilIn)
            out == Unwrap(utilOut)
        IN  IF SumSquares(in.vec) = 0
            THEN out.returned = "vec" /\ out.vec = in.vec /\ out.result = in.vec
            ELSE /\ Len(out.result) = Len(in.vec)
                 /\ \A i \in DOMAIN in.vec :
                        out.result[i] = (in.vec[i] * 10) \div Sqrt(SumSquares(in.vec))
                 /\ IF in.inPlace
                    THEN out.returned = "vec" /\ out.vec = out.result
                    ELSE out.returned = "normalized" /\ out.vec = in.vec

\* a vector of magnitude 2.0 was normalized into a new buffer
C36_WitnessNewBuffer ==
    /\ Called("normalizeVector")
    /\ ~Unwrap(utilIn).inPlace
    /\ SumSquares(Unwrap(utilIn).vec) = 400
    /\ Unwrap(utilOut).result # Unwrap(utilIn).vec
    /\ UnitLength(Unwrap(utilOut).result)

\* C37: dotProduct(a, b) throws when the lengths differ; for equal lengths it
\* returns the sum of a[i] * b[i] over all indices, as the loop that is not
\* unrolled does, for lengths that are multiples of 4 and for the others; and
\* dotProduct(a, b) = dotProduct(b, a).
C37_DotProductIsTheSum ==
    Called("dotProduct") =>
        LET a == Unwrap(utilIn).a
            b == Unwrap(utilIn).b
            out == Unwrap(utilOut)
        IN  /\ out.threw <=> Len(a) # Len(b)
            /\ out = dotProductReference(a, b)
            /\ out = dotProduct(b, a)

\* the product of two different vectors of 9 components, which is not zero
C37_WitnessTwoRoundsAndOne ==
    /\ Called("dotProduct")
    /\ Len(Unwrap(utilIn).a) = 9 /\ Len(Unwrap(utilIn).b) = 9
    /\ Unwrap(utilIn).a # Unwrap(utilIn).b
    /\ ~Unwrap(utilOut).threw
    /\ Unwrap(utilOut).value # 0
    /\ Unwrap(utilIn).a[9] * Unwrap(utilIn).b[9] # 0

\* C38: truncateToTokens(text, n) returns text as it is when it has at most 4n
\* characters; otherwise a prefix of text followed by '...', the prefix ending
\* before the last space within the first 4n characters when that space lies
\* beyond 80% of the 4n characters, and being the first 4n characters otherwise;
\* the result has at most 4n + 3 characters.
C38_TruncateToTokens ==
    Called("truncateToTokens") =>
        LET text == Unwrap(utilIn).text
            n == Unwrap(utilIn).maxTokens
            out == Unwrap(utilOut)
            spaces == {i \in 1..(4 * n) : i <= Len(text) /\ text[i] = 32}
            last == IF spaces = {} THEN 0 ELSE CHOOSE i \in spaces : \A j \in spaces : j <= i
            \* the 0-based index last - 1 is beyond 0.8 * 4n
            cut == IF spaces # {} /\ (last - 1) * 10 > 4 * n * 8 THEN last - 1 ELSE 4 * n
        IN  IF Len(text) <= 4 * n THEN out = text
            ELSE /\ out = SubSeq(text, 1, cut) \o <<46, 46, 46>>
                 /\ Len(out) <= 4 * n + 3

\* a text of 9 characters was cut before the space that is its 8th character
C38_WitnessCutAtSpace ==
    /\ Called("truncateToTokens")
    /\ Unwrap(utilIn).maxTokens = 2
    /\ Len(Unwrap(utilIn).text) = 9
    /\ Unwrap(utilIn).text[8] = 32
    /\ Unwrap(utilIn).text[3] = 32
    /\ Len(Unwrap(utilOut)) = 10

====
